---- MODULE Spec2Model ----
(***************************************************************************)
(* Learning/scheduling engine of the flashcard application: the progress   *)
(* tracker (AnalyticsService.updateUserProgress), the continuous mastery   *)
(* update (LearningService.updateMasteryLevel), the priority scorer and    *)
(* the question selectors, over a store of UserProgress rows, questions    *)
(* and attempts.                                                           *)
(*                                                                         *)
(* Numbers: JavaScript numbers are modelled as exact rationals <<n, d>>    *)
(* (d > 0, lowest terms); timestamps are integer milliseconds.             *)
(***************************************************************************)
EXTENDS Integers, Sequences, FiniteSets, TLC

\* ------------------------------------------------------------------------
\* Bounds of the model
\* ------------------------------------------------------------------------
\* number of update calls (updateUserProgress / updateMasteryLevel) of a run
NumCalls == 2
\* the clock runs for at most this many half days
MaxTicks == 1
\* one-at-a-time runs: updateUserProgress calls, and updateMasteryLevel calls
MaxAttempts == 6
\* the attempts behind a row of the table a run starts from
SeedAttempts == 5
\* the arguments the pure functions are evaluated on
\*   calculateMasteryLevel: totalAttempts 0 .. PureAttempts
PureAttempts == 21
\*   calculateNewMasteryLevel: currentMastery 100 * i / MasterySteps,
\*   performance i / (2 * PerfHalfSteps), totalAttempts 0 .. StableAttempts
MasterySteps == 40
PerfHalfSteps == 4
StableAttempts == 11
\*   calculateQuestionPriority: masteryLevel 100 * i / PriorityMasterySteps,
\*   lastPracticed 0 .. MaxAge half days ago, totalAttempts 1 .. PriorityAttempts
PriorityMasterySteps == 10
MaxAge == 23
PriorityAttempts == 5
MaxMasteryCalls == 1

\* calculateSpacedRepetitionInterval is applied to intervals 0 .. MaxInterval,
\* repetitions 0 .. MaxRepetitions, ease factors in halves up to
\* EaseHalves / 2 (and 1.3, 1.4), performances in steps of 1 / PerfSteps,
\* and its output is fed back until MaxReviews reviews are made
MaxInterval == 6
MaxRepetitions == 2
EaseHalves == 6
PerfSteps == 10
MaxReviews == 3
MaxQuestions == 3
MaxSessions == 3
MaxAttemptRows == 2
\* updateMasteryLevel calls that follow one updateUserProgress on a row
MaxMasterySequence == 3
\* half days that pass in a run of getQuestionsForReview after an update
MaxElapsed == 3

\* ------------------------------------------------------------------------
\* Exact rational arithmetic
\* ------------------------------------------------------------------------
Abs(x) == IF x < 0 THEN -x ELSE x

RECURSIVE Gcd(_, _)
Gcd(a, b) == IF b = 0 THEN a ELSE Gcd(b, a % b)

Norm(n, d) ==
  LET g == Gcd(Abs(n), d)
  IN  IF n = 0 THEN <<0, 1>> ELSE <<n \div g, d \div g>>

R(n, d) == Norm(n, d)
RInt(i) == <<i, 1>>

RAdd(a, b) ==
  LET g == Gcd(a[2], b[2])
  IN  Norm(a[1] * (b[2] \div g) + b[1] * (a[2] \div g), (a[2] \div g) * b[2])

RNeg(a) == <<-a[1], a[2]>>
RSub(a, b) == RAdd(a, RNeg(b))

RMul(a, b) ==
  LET g1 == Gcd(Abs(a[1]), b[2])
      g2 == Gcd(Abs(b[1]), a[2])
      h1 == IF g1 = 0 THEN 1 ELSE g1
      h2 == IF g2 = 0 THEN 1 ELSE g2
  IN  Norm((a[1] \div h1) * (b[1] \div h2), (a[2] \div h2) * (b[2] \div h1))

\* a / b for b > 0
RDiv(a, b) == RMul(a, <<b[2], b[1]>>)

RLt(a, b) == a[1] * b[2] < b[1] * a[2]
RLe(a, b) == a[1] * b[2] <= b[1] * a[2]
RGt(a, b) == RLt(b, a)
RGe(a, b) == RLe(b, a)
RMin(a, b) == IF RLe(a, b) THEN a ELSE b
RMax(a, b) == IF RGe(a, b) THEN a ELSE b

\* ------------------------------------------------------------------------
\* The store's entities
\* ------------------------------------------------------------------------
\* the users table, and the learners who practise during a run (the rows of
\* the other users are part of the store a run starts from)
Users    == {"u1", "u2"}
Learners == {"u1"}
Topics   == {"JavaScript", "React"}
Keys     == Users \X Topics

MsPerDay == 1000 * 60 * 60 * 24
HalfDay  == MsPerDay \div 2

\* a UserProgress row
Row(user, topic, m, last, total, correct) ==
  [userId |-> user, topic |-> topic, masteryLevel |-> m, lastPracticed |-> last,
   totalAttempts |-> total, correctAttempts |-> correct]

\* ------------------------------------------------------------------------
\* AnalyticsService.calculateMasteryLevel
\* ------------------------------------------------------------------------
\* mutant: the consistency bonus is ten times as large and starts at an
\* accuracy of 0.6
calculateMasteryLevelBigBonus(correctAttempts, totalAttempts) ==
  IF totalAttempts = 0 THEN RInt(0)
  ELSE
    LET accuracy == R(correctAttempts, totalAttempts)
        base     == RMul(accuracy, RInt(100))
        masteryLevel ==
          IF totalAttempts >= 5 /\ RGe(accuracy, R(6, 10))
          THEN RAdd(base, RMin(RInt(100), RMul(RInt(totalAttempts), RInt(5))))
          ELSE base
    IN  RMin(RInt(100), RMax(RInt(0), masteryLevel))

\* mutant: the consistency bonus needs an accuracy above 0.8
calculateMasteryLevelStrict(correctAttempts, totalAttempts) ==
  IF totalAttempts = 0 THEN RInt(0)
  ELSE
    LET accuracy == R(correctAttempts, totalAttempts)
        base     == RMul(accuracy, RInt(100))
        masteryLevel ==
          IF totalAttempts >= 5 /\ RGt(accuracy, R(8, 10))
          THEN RAdd(base, RMin(RInt(10), RMul(RInt(totalAttempts), R(5, 10))))
          ELSE base
    IN  RMin(RInt(100), RMax(RInt(0), masteryLevel))

calculateMasteryLevel(correctAttempts, totalAttempts) ==
  IF totalAttempts = 0 THEN RInt(0)
  ELSE
    LET accuracy == R(correctAttempts, totalAttempts)
        base     == RMul(accuracy, RInt(100))
        masteryLevel ==
          IF totalAttempts >= 5 /\ RGe(accuracy, R(8, 10))
          THEN RAdd(base, RMin(RInt(10), RMul(RInt(totalAttempts), R(5, 10))))
          ELSE base
    IN  RMin(RInt(100), RMax(RInt(0), masteryLevel))

\* ------------------------------------------------------------------------
\* LearningService.calculateNewMasteryLevel
\* ------------------------------------------------------------------------
\* mutant: the learning rate does not fall with the mastery
newMasteryFlatRate(currentMastery, performance, totalAttempts) ==
  LET normalizedPerformance == RMax(RInt(0), RMin(RInt(1), performance))
      learningRate == R(1, 10)
      rawChange ==
        IF RGt(normalizedPerformance, R(5, 10))
        THEN RMul(RMul(learningRate, RSub(normalizedPerformance, R(5, 10))),
                  RInt(100))
        ELSE RMul(RMul(RNeg(learningRate),
                       RSub(R(5, 10), normalizedPerformance)),
                  RInt(50))
      stabilityFactor == RMin(RInt(1), R(totalAttempts, 10))
      masteryChange == RMul(rawChange, RAdd(RInt(1), stabilityFactor))
  IN  RAdd(currentMastery, masteryChange)

\* mutant: a miss costs as much as a hit earns
newMasterySymmetric(currentMastery, performance, totalAttempts) ==
  LET normalizedPerformance == RMax(RInt(0), RMin(RInt(1), performance))
      learningRate ==
        RMul(R(1, 10), RSub(RInt(1), RDiv(currentMastery, RInt(100))))
      rawChange ==
        RMul(RMul(learningRate, RSub(normalizedPerformance, R(5, 10))), RInt(100))
      stabilityFactor == RMin(RInt(1), R(totalAttempts, 10))
      masteryChange == RMul(rawChange, RAdd(RInt(1), stabilityFactor))
  IN  RAdd(currentMastery, masteryChange)

\* currentMastery + masteryChange, before the final clamp
newMastery(currentMastery, performance, totalAttempts) ==
  LET normalizedPerformance == RMax(RInt(0), RMin(RInt(1), performance))
      learningRate ==
        RMul(R(1, 10), RSub(RInt(1), RDiv(currentMastery, RInt(100))))
      rawChange ==
        IF RGt(normalizedPerformance, R(5, 10))
        THEN RMul(RMul(learningRate, RSub(normalizedPerformance, R(5, 10))),
                  RInt(100))
        ELSE RMul(RMul(RNeg(learningRate),
                       RSub(R(5, 10), normalizedPerformance)),
                  RInt(50))
      stabilityFactor == RMin(RInt(1), R(totalAttempts, 10))
      masteryChange == RMul(rawChange, RAdd(RInt(1), stabilityFactor))
  IN  RAdd(currentMastery, masteryChange)

\* mutant: the final clamp is missing
calculateNewMasteryLevelNoClamp(currentMastery, performance, totalAttempts) ==
  newMastery(currentMastery, performance, totalAttempts)

calculateNewMasteryLevel(currentMastery, performance, totalAttempts) ==
  RMax(RInt(0), RMin(RInt(100), newMastery(currentMastery, performance, totalAttempts)))

\* ------------------------------------------------------------------------
\* LearningService.calculateSpacedRepetitionInterval
\* ------------------------------------------------------------------------
\* Math.round: the nearest integer, a half upwards
round(x) == (2 * x[1] + x[2]) \div (2 * x[2])

\* mutant: a review passes only above 0.6
passedAbove(performance) == RGt(performance, R(6, 10))

\* performance >= 0.6
passed(performance) == RGe(performance, R(6, 10))

\* 5 - performance * 5
quality(performance) == RSub(RInt(5), RMul(performance, RInt(5)))

\* mutant: the ease factor without its floor
newEaseFactorNoFloor(easeFactor, performance) ==
  RAdd(easeFactor,
       RSub(R(1, 10),
            RMul(quality(performance),
                 RAdd(R(8, 100), RMul(quality(performance), R(2, 100))))))

\* mutant: the ease factor is kept as it is, floored
newEaseFactorKept(easeFactor, performance) == RMax(R(13, 10), easeFactor)

\* Math.max(1.3, easeFactor + (0.1 - (5 - performance * 5) * (0.08 + (5 -
\* performance * 5) * 0.02)))
newEaseFactor(easeFactor, performance) ==
  RMax(R(13, 10),
       RAdd(easeFactor,
            RSub(R(1, 10),
                 RMul(quality(performance),
                      RAdd(R(8, 100), RMul(quality(performance), R(2, 100)))))))

\* mutant: a failed review leaves the interval as it was
calculateSpacedRepetitionIntervalKept(currentInterval, repetitions, easeFactor, performance) ==
  [newInterval |->
     IF passed(performance)
     THEN (IF repetitions = 0 THEN 1
           ELSE IF repetitions = 1 THEN 6
           ELSE round(RMul(RInt(currentInterval), easeFactor)))
     ELSE currentInterval,
   newEaseFactor |-> newEaseFactor(easeFactor, performance),
   newRepetitions |-> IF passed(performance) THEN repetitions + 1 ELSE 0]

calculateSpacedRepetitionInterval(currentInterval, repetitions, easeFactor, performance) ==
  [newInterval |->
     IF passed(performance)
     THEN (IF repetitions = 0 THEN 1
           ELSE IF repetitions = 1 THEN 6
           ELSE round(RMul(RInt(currentInterval), easeFactor)))
     ELSE 1,
   newEaseFactor |-> newEaseFactor(easeFactor, performance),
   newRepetitions |-> IF passed(performance) THEN repetitions + 1 ELSE 0]

\* ------------------------------------------------------------------------
\* LearningService.calculateQuestionPriority; progress is the row of the
\* question's topic or undefined (the empty sequence), dateNow is Date.now()
\* ------------------------------------------------------------------------
Min(a, b) == IF a <= b THEN a ELSE b
Max(a, b) == IF a >= b THEN a ELSE b

\* Math.floor((Date.now() - lastPracticed.getTime()) / (1000 * 60 * 60 * 24))
\* mutant: the elapsed time is not cut to whole days
daysSinceLastPracticeUncut(dateNow, lastPracticed) ==
  (dateNow - lastPracticed) \div HalfDay

daysSinceLastPractice(dateNow, lastPracticed) ==
  (dateNow - lastPracticed) \div MsPerDay

\* Factor 1: mastery level
masteryFactor(progress) ==
  IF progress # <<>>
  THEN RMul(RSub(RInt(100), progress[1].masteryLevel), R(5, 10))
  ELSE RInt(25)

\* mutant: the recency bonus is not capped
recencyFactorUncapped(progress, dateNow) ==
  IF progress # <<>>
  THEN RInt(daysSinceLastPractice(dateNow, progress[1].lastPracticed) * 2)
  ELSE RInt(0)

\* Factor 2: time since last practice
recencyFactor(progress, dateNow) ==
  IF progress # <<>>
  THEN RInt(Min(daysSinceLastPractice(dateNow, progress[1].lastPracticed) * 2, 20))
  ELSE RInt(0)

\* Factor 3: difficulty level (the switch has no default)
difficultyFactor(question) ==
  CASE question.difficulty = "easy"   -> RInt(5)
    [] question.difficulty = "medium" -> RInt(10)
    [] question.difficulty = "hard"   -> RInt(15)
    [] OTHER                          -> RInt(0)

\* Factor 4: recent attempts
\* mutant: no penalty for a recent attempt
recentFactorNone(wasRecentlyAttempted) == RInt(0)

recentFactor(wasRecentlyAttempted) ==
  IF wasRecentlyAttempted THEN RInt(-30) ELSE RInt(0)

\* Factor 5: success rate
successFactor(progress) ==
  IF progress # <<>> /\ progress[1].totalAttempts > 0
  THEN LET successRate == R(progress[1].correctAttempts, progress[1].totalAttempts)
       IN  IF RLt(successRate, R(5, 10)) THEN RInt(20)
           ELSE IF RGt(successRate, R(8, 10)) THEN RInt(-10)
           ELSE RInt(0)
  ELSE RInt(0)

calculateQuestionPriority(question, progress, wasRecentlyAttempted, dateNow) ==
  LET priority ==
        RAdd(RAdd(RAdd(RAdd(RAdd(RInt(50),
          masteryFactor(progress)),
          recencyFactor(progress, dateNow)),
          difficultyFactor(question)),
          recentFactor(wasRecentlyAttempted)),
          successFactor(progress))
  IN  RMax(RInt(0), RMin(RInt(100), priority))

\* ------------------------------------------------------------------------
\* State
\* ------------------------------------------------------------------------
VARIABLES
  now,       \* Date.now(), in milliseconds
  progress,  \* the user_progress table: its rows, in insertion order
  calls,     \* the update calls of the run, by call id
  log,       \* per key, the calls that returned a row: how many
             \* updateUserProgress, how many of them correct, and how many
             \* updateMasteryLevel
  questions, \* the questions table, in insertion order
  attempts,  \* the question_attempts table joined with its session's
             \* userId, in attemptedAt order (latest last)
  sel,       \* the selector call in progress (getNextQuestions,
             \* getQuestionsForReview)
  eval,      \* a pure function under evaluation: its name, arguments and,
             \* once applied, its value
  sessions,  \* the quiz_sessions table: the userId of each session id
  users,     \* the users table: the ids
  cleanup    \* the position of cleanupDatabase: "idle" (not called), the
             \* table its next deleteMany empties, "done" (returned), "err"
             \* (threw)

vars == <<now, progress, calls, log, questions, attempts, sel, eval, sessions,
          users, cleanup>>

\* what the update calls leave alone
others == <<questions, attempts, sel, eval, sessions, users, cleanup>>

CallIds == 1 .. NumCalls

StartTime == 24 * HalfDay

\* a Question row
Question(id, topic, difficulty) ==
  [id |-> id, topic |-> topic, difficulty |-> difficulty]

\* the quiz sessions a run starts with and their users
Sessions == [s1 |-> "u1", s2 |-> "u2"]

\* the session a seeded attempt of a user belongs to
SessionOf == [u1 |-> "s1", u2 |-> "s2"]

\* the question bank of the runs
Bank ==
  << Question("q1", "JavaScript", "easy"),
     Question("q2", "React", "medium"),
     Question("q3", "JavaScript", "hard"),
     Question("q4", "JavaScript", "medium"),
     Question("q5", "JavaScript", "easy") >>

\* the selector call of a run. pc: "idle" (not called), then the awaits of
\* the call in turn, "done" (returned result), "err" (threw). store: the table when the
\* call began. previous: what the same call returned before, and when
IdleSel ==
  [pc |-> "idle", op |-> "none", user |-> "none", count |-> 0, store |-> <<>>,
   userProgress |-> <<>>, recentQuestionIds |-> {}, at |-> 0,
   i |-> 0, examined |-> <<>>,
   questionsForReview |-> <<>>, result |-> <<>>, previous |-> <<>>,
   error |-> "none"]
NoEval  == [fn |-> "none"]

\* pc: "idle" (not called), "found" (findUnique has answered, the write is
\* not yet applied), "ok" (returned a row), "err" (threw), "cancelled" (the
\* caller gave the call up)
IdleCall ==
  [pc |-> "idle", op |-> "none", user |-> "none", topic |-> "none",
   isCorrect |-> FALSE, performance |-> RInt(0),
   existing |-> <<>>, readAt |-> 0, result |-> <<>>, error |-> "none"]

\* the performances updateMasteryLevel is called with
Performances == {R(-5, 1), R(3, 4), R(2, 1)}

NoLog == [ups |-> 0, correct |-> 0, ums |-> 0]

\* the log after call c has returned a row
Logged(c) ==
  LET k == <<calls[c].user, calls[c].topic>>
  IN  IF calls[c].op = "updateUserProgress"
      THEN [log EXCEPT ![k].ups = @ + 1,
                       ![k].correct = @ + (IF calls[c].isCorrect THEN 1 ELSE 0)]
      ELSE [log EXCEPT ![k].ums = @ + 1]

InFlight(c) == calls[c].pc = "found"
Started(c)  == calls[c].pc # "idle"

\* the rows of the table with the key (userId, topic)
RowsOf(user, topic) ==
  SelectSeq(progress, LAMBDA r : r.userId = user /\ r.topic = topic)

\* prisma.userProgress.findUnique({ where: { userId_topic } }): the row, or
\* null (the empty sequence)
findUnique(user, topic) ==
  IF RowsOf(user, topic) # <<>> THEN <<RowsOf(user, topic)[1]>> ELSE <<>>

\* the values new Date() can take when evaluated between the answer of
\* findUnique (at readAt) and the write (at time t)
Dates(readAt, t) == {readAt + i * HalfDay : i \in 0 .. ((t - readAt) \div HalfDay)}

\* a row as one-at-a-time practice leaves it: SeedAttempts attempts, all
\* but one correct, the last of them a day ago
SeedRow(user, topic) ==
  Row(user, topic, calculateMasteryLevel(SeedAttempts - 1, SeedAttempts),
      StartTime - MsPerDay, SeedAttempts, SeedAttempts - 1)

\* the tables a run starts from: the learner has practised none, one or
\* both topics before
SeedTables ==
  { <<>>,
    <<SeedRow("u1", "JavaScript")>>,
    <<SeedRow("u1", "React")>>,
    <<SeedRow("u1", "JavaScript"), SeedRow("u1", "React")>> }

Init ==
  /\ now = StartTime
  /\ progress \in SeedTables
  /\ calls = [c \in CallIds |-> IdleCall]
  /\ log = [k \in Keys |-> NoLog]
  /\ questions = Bank
  /\ attempts = <<>>
  /\ sel = IdleSel
  /\ sessions = Sessions
  /\ users = Users
  /\ cleanup = "idle"
  /\ eval = NoEval

\* the clock advances
Tick ==
  /\ now < StartTime + MaxTicks * HalfDay
  /\ now' = now + HalfDay
  /\ UNCHANGED <<progress, calls, log, others>>

\* call ids are handed out in order
CanBegin(c) ==
  /\ calls[c].pc = "idle"
  /\ \A b \in DOMAIN calls : b < c => Started(b)

\* ------------------------------------------------------------------------
\* The errors of the store and the catch blocks of the operations. A store
\* error is the class it is thrown as and its message; the message is
\* Prisma's, and here it is the error code alone
\* ------------------------------------------------------------------------
StoreError(known, message) == [known |-> known, message |-> message]

\* PrismaClientKnownRequestError: unique constraint failed, foreign key
\* constraint failed, record to update not found
UniqueConstraintFailed     == StoreError(TRUE, "P2002")
ForeignKeyConstraintFailed == StoreError(TRUE, "P2003")
RecordNotFound             == StoreError(TRUE, "P2025")
\* PrismaClientInitializationError: the database cannot be reached
StoreUnavailable           == StoreError(FALSE, "P1001")

\* what a store call of the user_progress table can be rejected with, and
\* what a create of the question_attempts table can
ProgressErrors == {UniqueConstraintFailed, RecordNotFound, StoreUnavailable}
AttemptErrors  == {ForeignKeyConstraintFailed, StoreUnavailable}
StoreErrors    == ProgressErrors \cup AttemptErrors

\* throw new Error(`Database error: ${error.message}`)
DatabaseError(error) == "Database error: " \o error.message

\* mutant: the catch block has no branch for the known request errors
catchUpdateUserProgressNamed(error) ==
  "Failed to update user progress: " \o error.message

\* the catch block of updateUserProgress
catchUpdateUserProgress(error) ==
  IF error.known THEN DatabaseError(error)
  ELSE "Failed to update user progress: " \o error.message

\* the catch block of updateMasteryLevel
catchUpdateMasteryLevel(error) ==
  IF error.known THEN DatabaseError(error)
  ELSE "Failed to update mastery level: " \o error.message

\* the catch block of recordQuestionAttempt
catchRecordQuestionAttempt(error) ==
  IF error.known THEN DatabaseError(error)
  ELSE "Failed to record question attempt: " \o error.message

\* the catch blocks of the selectors
catchGetNextQuestions(error) ==
  "Failed to get next questions: " \o error.message
catchGetQuestionsForReview(error) ==
  "Failed to get questions for review: " \o error.message
catchGetTopicRecommendations(error) ==
  "Failed to get topic recommendations: " \o error.message
catchGetLearningRecommendations(error) ==
  "Failed to get learning recommendations: " \o error.message

\* the message of the Error the caller of operation op receives when a store
\* call of op is rejected with error
caught(op, error) ==
  CASE op = "updateUserProgress"      -> catchUpdateUserProgress(error)
    [] op = "updateMasteryLevel"      -> catchUpdateMasteryLevel(error)
    [] op = "recordQuestionAttempt"   -> catchRecordQuestionAttempt(error)
    [] op = "getNextQuestions"        -> catchGetNextQuestions(error)
    [] op = "getQuestionsForReview"   -> catchGetQuestionsForReview(error)
    [] op = "getTopicRecommendations" -> catchGetTopicRecommendations(error)
    [] op = "getLearningRecommendations" ->
         catchGetLearningRecommendations(error)

\* ------------------------------------------------------------------------
\* The store's writes: prisma.userProgress.update / create under
\* @@unique([userId, topic]). Both throw a PrismaClientKnownRequestError,
\* which the catch block of the calling operation rethrows
\* ------------------------------------------------------------------------
\* the row after update({ where: key, data }): the fields of data replace
\* the stored ones, the others stay as stored
Merge(row, data) ==
  [f \in DOMAIN row |-> IF f \in DOMAIN data THEN data[f] ELSE row[f]]

\* mutant: the table has no unique index on (userId, topic)
NoUniqueIndex(row) == FALSE

\* the unique index on (userId, topic) rejects the row
UniqueViolation(row) == RowsOf(row.userId, row.topic) # <<>>

\* prisma.userProgress.update by call c: P2025 when no row has the key
update(c, data) ==
  LET u == calls[c].user
      t == calls[c].topic
      hit(r) == r.userId = u /\ r.topic = t
  IN  IF RowsOf(u, t) # <<>>
      THEN /\ progress' = [i \in DOMAIN progress |->
                             IF hit(progress[i]) THEN Merge(progress[i], data)
                                                 ELSE progress[i]]
           /\ calls' = [calls EXCEPT ![c].pc = "ok",
                                     ![c].result = <<Merge(RowsOf(u, t)[1], data)>>]
           /\ log' = Logged(c)
      ELSE /\ calls' = [calls EXCEPT ![c].pc = "err",
                                     ![c].error = caught(calls[c].op, RecordNotFound)]
           /\ UNCHANGED <<progress, log>>

\* prisma.userProgress.create by call c: P2002 when a row has the key
create(c, data) ==
  IF ~UniqueViolation(data)
  THEN /\ progress' = Append(progress, data)
       /\ calls' = [calls EXCEPT ![c].pc = "ok", ![c].result = <<data>>]
       /\ log' = Logged(c)
  ELSE /\ calls' = [calls EXCEPT ![c].pc = "err",
                                 ![c].error =
                                   caught(calls[c].op, UniqueConstraintFailed)]
       /\ UNCHANGED <<progress, log>>

\* if (existingProgress) update else create
Write(c, data) ==
  IF calls[c].existing # <<>> THEN update(c, data) ELSE create(c, data)

\* ------------------------------------------------------------------------
\* AnalyticsService.updateUserProgress
\* ------------------------------------------------------------------------
\* the call is made and its findUnique is answered
UpdateUserProgressFind(c) ==
  /\ CanBegin(c)
  /\ \E u \in Learners, t \in Topics, ok \in BOOLEAN :
       calls' = [calls EXCEPT ![c] =
                   [IdleCall EXCEPT !.pc = "found", !.op = "updateUserProgress",
                                    !.user = u, !.topic = t, !.isCorrect = ok,
                                    !.existing = findUnique(u, t),
                                    !.readAt = now]]
  /\ UNCHANGED <<now, progress, log, others>>

\* mutant: the update never lowers the stored masteryLevel
UpdateUserProgressDataKeptMastery(user, topic, existing, isCorrect, date) ==
  IF existing # <<>>
  THEN LET newTotalAttempts   == existing[1].totalAttempts + 1
           newCorrectAttempts == existing[1].correctAttempts + (IF isCorrect THEN 1 ELSE 0)
           newMasteryLevel    == calculateMasteryLevel(newCorrectAttempts, newTotalAttempts)
       IN  [totalAttempts |-> newTotalAttempts,
            correctAttempts |-> newCorrectAttempts,
            masteryLevel |-> RMax(existing[1].masteryLevel, newMasteryLevel),
            lastPracticed |-> date]
  ELSE [userId |-> user, topic |-> topic, totalAttempts |-> 1,
        correctAttempts |-> IF isCorrect THEN 1 ELSE 0,
        masteryLevel |-> calculateMasteryLevel(IF isCorrect THEN 1 ELSE 0, 1),
        lastPracticed |-> date]

\* mutant: a wrong answer takes a correct one back
UpdateUserProgressDataPenalised(user, topic, existing, isCorrect, date) ==
  IF existing # <<>>
  THEN LET newTotalAttempts   == existing[1].totalAttempts + 1
           newCorrectAttempts ==
             IF isCorrect THEN existing[1].correctAttempts + 1
             ELSE Max(existing[1].correctAttempts - 1, 0)
       IN  [totalAttempts |-> newTotalAttempts,
            correctAttempts |-> newCorrectAttempts,
            masteryLevel |-> calculateMasteryLevel(newCorrectAttempts, newTotalAttempts),
            lastPracticed |-> date]
  ELSE [userId |-> user, topic |-> topic, totalAttempts |-> 1,
        correctAttempts |-> IF isCorrect THEN 1 ELSE 0,
        masteryLevel |-> calculateMasteryLevel(IF isCorrect THEN 1 ELSE 0, 1),
        lastPracticed |-> date]

\* mutant: the update forgets to count the attempt in totalAttempts
UpdateUserProgressDataStaleTotal(user, topic, existing, isCorrect, date) ==
  IF existing # <<>>
  THEN LET newTotalAttempts   == existing[1].totalAttempts
           newCorrectAttempts == existing[1].correctAttempts + (IF isCorrect THEN 1 ELSE 0)
       IN  [totalAttempts |-> newTotalAttempts,
            correctAttempts |-> newCorrectAttempts,
            masteryLevel |-> calculateMasteryLevel(newCorrectAttempts, newTotalAttempts),
            lastPracticed |-> date]
  ELSE [userId |-> user, topic |-> topic, totalAttempts |-> 1,
        correctAttempts |-> IF isCorrect THEN 1 ELSE 0,
        masteryLevel |-> calculateMasteryLevel(IF isCorrect THEN 1 ELSE 0, 1),
        lastPracticed |-> date]

\* mutant: the update counts every attempt as correct
UpdateUserProgressDataAllCorrect(user, topic, existing, isCorrect, date) ==
  IF existing # <<>>
  THEN LET newTotalAttempts   == existing[1].totalAttempts + 1
           newCorrectAttempts == existing[1].correctAttempts + 1
       IN  [totalAttempts |-> newTotalAttempts,
            correctAttempts |-> newCorrectAttempts,
            masteryLevel |-> calculateMasteryLevel(newCorrectAttempts, newTotalAttempts),
            lastPracticed |-> date]
  ELSE [userId |-> user, topic |-> topic, totalAttempts |-> 1,
        correctAttempts |-> IF isCorrect THEN 1 ELSE 0,
        masteryLevel |-> calculateMasteryLevel(IF isCorrect THEN 1 ELSE 0, 1),
        lastPracticed |-> date]

\* mutant: the update counts the attempt on top of the stored counter
\* instead of the one findUnique answered (an atomic increment)
UpdateUserProgressDataFresh(user, topic, existing, isCorrect, date) ==
  IF existing # <<>>
  THEN LET stored == findUnique(user, topic)
           newTotalAttempts   == stored[1].totalAttempts + 1
           newCorrectAttempts == stored[1].correctAttempts + (IF isCorrect THEN 1 ELSE 0)
       IN  [totalAttempts |-> newTotalAttempts,
            correctAttempts |-> newCorrectAttempts,
            masteryLevel |-> calculateMasteryLevel(newCorrectAttempts, newTotalAttempts),
            lastPracticed |-> date]
  ELSE [userId |-> user, topic |-> topic, totalAttempts |-> 1,
        correctAttempts |-> IF isCorrect THEN 1 ELSE 0,
        masteryLevel |-> calculateMasteryLevel(IF isCorrect THEN 1 ELSE 0, 1),
        lastPracticed |-> date]

\* the data object of updateUserProgress's update or create
UpdateUserProgressData(user, topic, existing, isCorrect, date) ==
  IF existing # <<>>
  THEN LET newTotalAttempts   == existing[1].totalAttempts + 1
           newCorrectAttempts == existing[1].correctAttempts + (IF isCorrect THEN 1 ELSE 0)
           newMasteryLevel    == calculateMasteryLevel(newCorrectAttempts, newTotalAttempts)
       IN  [totalAttempts |-> newTotalAttempts,
            correctAttempts |-> newCorrectAttempts,
            masteryLevel |-> newMasteryLevel,
            lastPracticed |-> date]
  ELSE [userId |-> user,
        topic |-> topic,
        totalAttempts |-> 1,
        correctAttempts |-> IF isCorrect THEN 1 ELSE 0,
        masteryLevel |-> calculateMasteryLevel(IF isCorrect THEN 1 ELSE 0, 1),
        lastPracticed |-> date]

\* the update or create of the call is applied and the call returns
UpdateUserProgressWrite(c) ==
  /\ calls[c].pc = "found"
  /\ calls[c].op = "updateUserProgress"
  /\ \E date \in Dates(calls[c].readAt, now) :
       Write(c, UpdateUserProgressData(calls[c].user, calls[c].topic,
                                       calls[c].existing, calls[c].isCorrect, date))
  /\ UNCHANGED <<now, others>>

\* ------------------------------------------------------------------------
\* LearningService.updateMasteryLevel
\* ------------------------------------------------------------------------
UpdateMasteryLevelFind(c) ==
  /\ CanBegin(c)
  /\ \E u \in Learners, t \in Topics, p \in Performances :
       calls' = [calls EXCEPT ![c] =
                   [IdleCall EXCEPT !.pc = "found", !.op = "updateMasteryLevel",
                                    !.user = u, !.topic = t, !.performance = p,
                                    !.existing = findUnique(u, t),
                                    !.readAt = now]]
  /\ UNCHANGED <<now, progress, log, others>>

\* mutant: the update counts the call as an attempt, as updateUserProgress
\* does
UpdateMasteryLevelDataCounted(user, topic, existing, performance, date) ==
  LET newMasteryLevel ==
        calculateNewMasteryLevel(
          IF existing # <<>> THEN existing[1].masteryLevel ELSE RInt(0),
          performance,
          IF existing # <<>> THEN existing[1].totalAttempts ELSE 0)
  IN  IF existing # <<>>
      THEN [masteryLevel |-> newMasteryLevel,
            totalAttempts |-> existing[1].totalAttempts + 1,
            lastPracticed |-> date]
      ELSE [userId |-> user,
            topic |-> topic,
            masteryLevel |-> newMasteryLevel,
            totalAttempts |-> 1,
            correctAttempts |-> IF RGt(performance, R(5, 10)) THEN 1 ELSE 0,
            lastPracticed |-> date]

\* the data object of updateMasteryLevel's update or create
UpdateMasteryLevelData(user, topic, existing, performance, date) ==
  LET newMasteryLevel ==
        calculateNewMasteryLevel(
          IF existing # <<>> THEN existing[1].masteryLevel ELSE RInt(0),
          performance,
          IF existing # <<>> THEN existing[1].totalAttempts ELSE 0)
  IN  IF existing # <<>>
      THEN [masteryLevel |-> newMasteryLevel, lastPracticed |-> date]
      ELSE [userId |-> user,
            topic |-> topic,
            masteryLevel |-> newMasteryLevel,
            totalAttempts |-> 1,
            correctAttempts |-> IF RGt(performance, R(5, 10)) THEN 1 ELSE 0,
            lastPracticed |-> date]

UpdateMasteryLevelWrite(c) ==
  /\ calls[c].pc = "found"
  /\ calls[c].op = "updateMasteryLevel"
  /\ \E date \in Dates(calls[c].readAt, now) :
       Write(c, UpdateMasteryLevelData(calls[c].user, calls[c].topic,
                                       calls[c].existing, calls[c].performance, date))
  /\ UNCHANGED <<now, others>>

\* the caller has received the answer of call c
Return(c) ==
  /\ calls[c].pc \in {"ok", "err"}
  /\ calls' = [calls EXCEPT ![c] = IdleCall]
  /\ UNCHANGED <<now, progress, log, others>>

Next ==
  \/ \E c \in DOMAIN calls : UpdateUserProgressFind(c)
  \/ \E c \in DOMAIN calls : UpdateUserProgressWrite(c)
  \/ \E c \in DOMAIN calls : UpdateMasteryLevelFind(c)
  \/ \E c \in DOMAIN calls : UpdateMasteryLevelWrite(c)

\* any interleaving of NumCalls update calls, on a table that earlier
\* practice has or has not filled, within one clock reading
Spec == Init /\ [][Next]_vars

\* ------------------------------------------------------------------------
\* One call at a time: a single caller that awaits each call before the
\* next, for as long as the bounds allow
\* ------------------------------------------------------------------------
InitSerial ==
  /\ now = StartTime
  /\ progress = <<>>
  /\ calls = [c \in {1} |-> IdleCall]
  /\ log = [k \in Keys |-> NoLog]
  /\ questions = Bank
  /\ attempts = <<>>
  /\ sel = IdleSel
  /\ sessions = Sessions
  /\ users = Users
  /\ cleanup = "idle"
  /\ eval = NoEval

RECURSIVE Sum(_, _)
Sum(f, S) == IF S = {} THEN 0
             ELSE LET x == CHOOSE y \in S : TRUE IN f[x] + Sum(f, S \ {x})

NextSerial ==
  \/ UpdateUserProgressFind(1) /\ Sum([k \in Keys |-> log[k].ups], Keys) < MaxAttempts
  \/ UpdateUserProgressWrite(1)
  \/ UpdateMasteryLevelFind(1) /\ Sum([k \in Keys |-> log[k].ums], Keys) < MaxMasteryCalls
  \/ UpdateMasteryLevelWrite(1)
  \/ Return(1)

SpecSerial == InitSerial /\ [][NextSerial]_vars

\* ------------------------------------------------------------------------
\* Store calls that are rejected and calls the caller gives up. Any await of
\* an operation can throw; the catch block of the operation rethrows
\* ------------------------------------------------------------------------
\* the data object call c writes when its new Date() is date
Data(c, date) ==
  IF calls[c].op = "updateUserProgress"
  THEN UpdateUserProgressData(calls[c].user, calls[c].topic, calls[c].existing,
                              calls[c].isCorrect, date)
  ELSE UpdateMasteryLevelData(calls[c].user, calls[c].topic, calls[c].existing,
                              calls[c].performance, date)

\* the table once the update or create of call c is applied; the table as
\* it is when the store refuses the statement
Written(c, data) ==
  LET hit(r) == r.userId = calls[c].user /\ r.topic = calls[c].topic
  IN  IF calls[c].existing # <<>>
      THEN [i \in DOMAIN progress |->
              IF hit(progress[i]) THEN Merge(progress[i], data) ELSE progress[i]]
      ELSE IF UniqueViolation(data) THEN progress ELSE Append(progress, data)

\* mutant: the update is two statements, the counters first, and the call
\* can end between them
OutcomesTorn(c, data) ==
  {progress, Written(c, data)} \cup
  (IF calls[c].existing # <<>>
   THEN {Written(c, [f \in DOMAIN data \ {"masteryLevel", "lastPracticed"} |->
                       data[f]])}
   ELSE {})

\* the tables an update or create that did not answer can leave: the call
\* makes one statement, which the store applies whole or not at all
Outcomes(c, data) == {progress, Written(c, data)}

\* updateUserProgress is called and its findUnique is rejected
UpdateUserProgressFindRejected(c) ==
  /\ CanBegin(c)
  /\ \E u \in Learners, t \in Topics, isCorrect \in BOOLEAN :
       calls' = [calls EXCEPT ![c] =
                   [IdleCall EXCEPT !.pc = "err", !.op = "updateUserProgress",
                                    !.user = u, !.topic = t,
                                    !.isCorrect = isCorrect,
                                    !.error = caught("updateUserProgress",
                                                     StoreUnavailable)]]
  /\ UNCHANGED <<now, progress, log, others>>

\* the update or create of updateUserProgress does not answer
UpdateUserProgressWriteRejected(c) ==
  /\ calls[c].pc = "found"
  /\ calls[c].op = "updateUserProgress"
  /\ \E date \in Dates(calls[c].readAt, now) :
       progress' \in Outcomes(c, Data(c, date))
  /\ calls' = [calls EXCEPT ![c].pc = "err",
                            ![c].error = caught("updateUserProgress",
                                                StoreUnavailable)]
  /\ UNCHANGED <<now, log, others>>

\* updateMasteryLevel is called and its findUnique is rejected
UpdateMasteryLevelFindRejected(c) ==
  /\ CanBegin(c)
  /\ \E u \in Learners, t \in Topics, p \in Performances :
       calls' = [calls EXCEPT ![c] =
                   [IdleCall EXCEPT !.pc = "err", !.op = "updateMasteryLevel",
                                    !.user = u, !.topic = t,
                                    !.performance = p,
                                    !.error = caught("updateMasteryLevel",
                                                     StoreUnavailable)]]
  /\ UNCHANGED <<now, progress, log, others>>

\* the update or create of updateMasteryLevel does not answer
UpdateMasteryLevelWriteRejected(c) ==
  /\ calls[c].pc = "found"
  /\ calls[c].op = "updateMasteryLevel"
  /\ \E date \in Dates(calls[c].readAt, now) :
       progress' \in Outcomes(c, Data(c, date))
  /\ calls' = [calls EXCEPT ![c].pc = "err",
                            ![c].error = caught("updateMasteryLevel",
                                                StoreUnavailable)]
  /\ UNCHANGED <<now, log, others>>

\* the caller gives an update call up while its findUnique is in flight:
\* nothing was read, nothing is written
CancelFind(c) ==
  /\ CanBegin(c)
  /\ \E u \in Learners, t \in Topics :
       \/ \E isCorrect \in BOOLEAN :
            calls' = [calls EXCEPT ![c] =
                        [IdleCall EXCEPT !.pc = "cancelled",
                                         !.op = "updateUserProgress",
                                         !.user = u, !.topic = t,
                                         !.isCorrect = isCorrect]]
       \/ \E p \in Performances :
            calls' = [calls EXCEPT ![c] =
                        [IdleCall EXCEPT !.pc = "cancelled",
                                         !.op = "updateMasteryLevel",
                                         !.user = u, !.topic = t,
                                         !.performance = p]]
  /\ UNCHANGED <<now, progress, log, others>>

\* the caller gives an update call up while its update or create is in
\* flight
CancelWrite(c) ==
  /\ calls[c].pc = "found"
  /\ \E date \in Dates(calls[c].readAt, now) :
       progress' \in Outcomes(c, Data(c, date))
  /\ calls' = [calls EXCEPT ![c].pc = "cancelled"]
  /\ UNCHANGED <<now, log, others>>

\* the session and question ids recordQuestionAttempt is called with: ones
\* that exist and ones that do not
SessionIds  == {"s1", "s9"}
QuestionIds == {"q1", "q9"}

\* the foreign keys of QuestionAttempt: session and question exist
ForeignKeys(sessionId, questionId) ==
  /\ sessionId \in DOMAIN sessions
  /\ \E i \in DOMAIN questions : questions[i].id = questionId

\* recordQuestionAttempt: the create is applied, or fails on a foreign key
RecordQuestionAttempt(c) ==
  /\ CanBegin(c)
  /\ \E sessionId \in SessionIds, questionId \in QuestionIds :
       IF ForeignKeys(sessionId, questionId)
       THEN LET row == [user |-> sessions[sessionId],
                        questionId |-> questionId, attemptedAt |-> now,
                        sessionId |-> sessionId]
            IN  /\ attempts' = Append(attempts, row)
                /\ calls' = [calls EXCEPT ![c] =
                               [IdleCall EXCEPT !.pc = "ok",
                                                !.op = "recordQuestionAttempt",
                                                !.user = sessions[sessionId],
                                                !.result = <<row>>]]
       ELSE /\ calls' = [calls EXCEPT ![c] =
                           [IdleCall EXCEPT
                              !.pc = "err", !.op = "recordQuestionAttempt",
                              !.error = caught("recordQuestionAttempt",
                                               ForeignKeyConstraintFailed)]]
            /\ UNCHANGED attempts
  /\ UNCHANGED <<now, progress, log, questions, sel, eval, sessions, users,
               cleanup>>

\* recordQuestionAttempt when the store cannot be reached
RecordQuestionAttemptRejected(c) ==
  /\ CanBegin(c)
  /\ calls' = [calls EXCEPT ![c] =
                 [IdleCall EXCEPT !.pc = "err", !.op = "recordQuestionAttempt",
                                  !.error = caught("recordQuestionAttempt",
                                                   StoreUnavailable)]]
  /\ UNCHANGED <<now, progress, log, others>>

\* the operations that read and rank, and write nothing
Selectors ==
  {"getNextQuestions", "getQuestionsForReview", "getTopicRecommendations"}

\* a selector is called and one of its store calls is rejected: every await
\* of a selector is inside its one try block, and nothing was written
SelectorRejected(c) ==
  /\ CanBegin(c)
  /\ \E op \in Selectors, u \in Learners :
       calls' = [calls EXCEPT ![c] =
                   [IdleCall EXCEPT !.pc = "err", !.op = op, !.user = u,
                                    !.error = caught(op, StoreUnavailable)]]
  /\ UNCHANGED <<now, progress, log, others>>

\* the learner has practised nothing, or both topics
InitFaulty ==
  /\ now = StartTime
  /\ progress \in {<<>>, <<SeedRow("u1", "JavaScript"), SeedRow("u1", "React")>>}
  /\ calls = [c \in CallIds |-> IdleCall]
  /\ log = [k \in Keys |-> NoLog]
  /\ questions = Bank
  /\ attempts = <<>>
  /\ sel = IdleSel
  /\ sessions = Sessions
  /\ users = Users
  /\ cleanup = "idle"
  /\ eval = NoEval

\* the update calls of these runs are all on the one topic
Practising(c) == calls'[c].topic = "JavaScript"

NextFaulty ==
  \/ \E c \in DOMAIN calls : UpdateUserProgressFind(c) /\ Practising(c)
  \/ \E c \in DOMAIN calls : UpdateUserProgressWrite(c)
  \/ \E c \in DOMAIN calls : UpdateMasteryLevelFind(c) /\ Practising(c)
  \/ \E c \in DOMAIN calls : UpdateMasteryLevelWrite(c)
  \/ \E c \in DOMAIN calls : UpdateUserProgressFindRejected(c) /\ Practising(c)
  \/ \E c \in DOMAIN calls : UpdateUserProgressWriteRejected(c)
  \/ \E c \in DOMAIN calls : UpdateMasteryLevelFindRejected(c) /\ Practising(c)
  \/ \E c \in DOMAIN calls : UpdateMasteryLevelWriteRejected(c)
  \/ \E c \in DOMAIN calls : CancelFind(c) /\ Practising(c)
  \/ \E c \in DOMAIN calls : CancelWrite(c)
  \/ \E c \in DOMAIN calls : RecordQuestionAttempt(c)
  \/ \E c \in DOMAIN calls : RecordQuestionAttemptRejected(c)
  \/ \E c \in DOMAIN calls : SelectorRejected(c)

\* any interleaving of NumCalls calls whose store calls can be rejected or
\* given up
SpecFaulty == InitFaulty /\ [][NextFaulty]_vars

\* ------------------------------------------------------------------------
\* The bank, the sessions and cleanupDatabase, under the foreign keys of
\* the schema: QuestionAttempt.session and .question and UserProgress.user
\* are required relations (a referenced row cannot be deleted),
\* QuizSession.user is optional (set to null when the user is deleted)
\* ------------------------------------------------------------------------
\* the ids cuid() gives to new questions and sessions
NewQuestionIds == {"q6", "q7"}
NewSessionIds  == {"s3"}

\* the ids of the stored questions
StoredIds == {questions[j].id : j \in DOMAIN questions}

\* mutant: the store lets a referenced question go
QuestionReferencedNever(id) == FALSE

\* an attempt references the question
QuestionReferenced(id) == \E j \in DOMAIN attempts : attempts[j].questionId = id

\* an attempt references the session
SessionReferenced(id) == \E j \in DOMAIN attempts : attempts[j].sessionId = id

\* the catch block of addQuestion
catchAddQuestion(error) ==
  IF error.known THEN DatabaseError(error)
  ELSE "Failed to create question: " \o error.message

\* the catch block of deleteQuestion
catchDeleteQuestion(error) ==
  IF error.known
  THEN IF error.message = "P2025" THEN "Question not found"
       ELSE DatabaseError(error)
  ELSE "Failed to delete question: " \o error.message

\* the catch block of createQuizSession
catchCreateQuizSession(error) ==
  IF error.known THEN DatabaseError(error)
  ELSE "Failed to create quiz session: " \o error.message

\* QuestionService.addQuestion: difficulty defaults to 'medium'
AddQuestion(c) ==
  /\ CanBegin(c)
  /\ Len(questions) < MaxQuestions
  /\ \E id \in NewQuestionIds \ StoredIds, topic \in Topics,
        difficulty \in {"", "hard"} :
       LET row == Question(id, topic,
                           IF difficulty = "" THEN "medium" ELSE difficulty)
       IN  /\ questions' = Append(questions, row)
           /\ calls' = [calls EXCEPT ![c] =
                          [IdleCall EXCEPT !.pc = "ok", !.op = "addQuestion",
                                           !.topic = topic, !.result = <<row>>]]
  /\ UNCHANGED <<now, progress, log, attempts, sel, eval, sessions, users,
                 cleanup>>

\* QuestionService.deleteQuestion
DeleteQuestion(c) ==
  /\ CanBegin(c)
  /\ \E id \in QuestionIds \cup NewQuestionIds :
       LET thrown(error) ==
             /\ calls' = [calls EXCEPT ![c] =
                            [IdleCall EXCEPT !.pc = "err", !.op = "deleteQuestion",
                                             !.error = catchDeleteQuestion(error)]]
             /\ UNCHANGED questions
       IN  IF id \notin StoredIds THEN thrown(RecordNotFound)
           ELSE IF QuestionReferenced(id) THEN thrown(ForeignKeyConstraintFailed)
           ELSE /\ questions' = SelectSeq(questions, LAMBDA q : q.id # id)
                /\ calls' = [calls EXCEPT ![c] =
                               [IdleCall EXCEPT !.pc = "ok",
                                                !.op = "deleteQuestion"]]
  /\ UNCHANGED <<now, progress, log, attempts, sel, eval, sessions, users,
                 cleanup>>

\* AnalyticsService.createQuizSession, with or without a userId
CreateQuizSession(c) ==
  /\ CanBegin(c)
  /\ Cardinality(DOMAIN sessions) < MaxSessions
  /\ \E id \in NewSessionIds \ DOMAIN sessions, userId \in {"none", "u1"} :
       IF userId = "none" \/ userId \in users
       THEN /\ sessions' = [x \in DOMAIN sessions \cup {id} |->
                              IF x = id THEN userId ELSE sessions[x]]
            /\ calls' = [calls EXCEPT ![c] =
                           [IdleCall EXCEPT !.pc = "ok",
                                            !.op = "createQuizSession",
                                            !.user = userId]]
       ELSE /\ calls' = [calls EXCEPT ![c] =
                           [IdleCall EXCEPT
                              !.pc = "err", !.op = "createQuizSession",
                              !.user = userId,
                              !.error = catchCreateQuizSession(
                                          ForeignKeyConstraintFailed)]]
            /\ UNCHANGED sessions
  /\ UNCHANGED <<now, progress, log, questions, attempts, sel, eval, users,
                 cleanup>>

\* cleanupDatabase: await prisma.questionAttempt.deleteMany()
CleanupAttempts ==
  /\ cleanup = "idle"
  /\ attempts' = <<>>
  /\ cleanup' = "sessions"
  /\ UNCHANGED <<now, progress, calls, log, questions, sel, eval, sessions,
                 users>>

\* cleanupDatabase: await prisma.quizSession.deleteMany()
CleanupSessions ==
  /\ cleanup = "sessions"
  /\ IF \E id \in DOMAIN sessions : SessionReferenced(id)
     THEN cleanup' = "err" /\ UNCHANGED sessions
     ELSE cleanup' = "progress" /\ sessions' = <<>>
  /\ UNCHANGED <<now, progress, calls, log, questions, attempts, sel, eval,
                 users>>

\* cleanupDatabase: await prisma.userProgress.deleteMany()
CleanupProgress ==
  /\ cleanup = "progress"
  /\ progress' = <<>>
  /\ cleanup' = "questions"
  /\ UNCHANGED <<now, calls, log, questions, attempts, sel, eval, sessions,
                 users>>

\* cleanupDatabase: await prisma.question.deleteMany()
CleanupQuestions ==
  /\ cleanup = "questions"
  /\ IF \E id \in StoredIds : QuestionReferenced(id)
     THEN cleanup' = "err" /\ UNCHANGED questions
     ELSE cleanup' = "users" /\ questions' = <<>>
  /\ UNCHANGED <<now, progress, calls, log, attempts, sel, eval, sessions,
                 users>>

\* cleanupDatabase: await prisma.user.deleteMany(), then return
CleanupUsers ==
  /\ cleanup = "users"
  /\ IF \E j \in DOMAIN progress : progress[j].userId \in users
     THEN cleanup' = "err" /\ UNCHANGED <<users, sessions>>
     ELSE /\ cleanup' = "done"
          /\ users' = {}
          /\ sessions' = [x \in DOMAIN sessions |-> "none"]
  /\ UNCHANGED <<now, progress, calls, log, questions, attempts, sel, eval>>

\* a bank of two questions, the learner's session and progress row
InitIntegrity ==
  /\ now = StartTime
  /\ progress = <<SeedRow("u1", "JavaScript")>>
  /\ calls = [c \in {1} |-> IdleCall]
  /\ log = [k \in Keys |-> NoLog]
  /\ questions = SubSeq(Bank, 1, 2)
  /\ attempts = <<>>
  /\ sel = IdleSel
  /\ eval = NoEval
  /\ sessions = Sessions
  /\ users = Users
  /\ cleanup = "idle"

NextIntegrity ==
  \/ RecordQuestionAttempt(1) /\ Len(attempts') <= MaxAttemptRows
  \/ AddQuestion(1)
  \/ DeleteQuestion(1)
  \/ CreateQuizSession(1)
  \/ Return(1)
  \/ CleanupAttempts
  \/ CleanupSessions
  \/ CleanupProgress
  \/ CleanupQuestions
  \/ CleanupUsers

\* one caller at a time changes the bank, the sessions and the attempts,
\* and cleanupDatabase runs once beside it
SpecIntegrity == InitIntegrity /\ [][NextIntegrity]_vars



\* ------------------------------------------------------------------------
\* The pure functions, each applied once to arguments drawn from the bounds
\* ------------------------------------------------------------------------
Pending(fn, args) == [fn |-> fn, args |-> args, done |-> FALSE, out |-> <<>>]

\* calculateMasteryLevel(correctAttempts, totalAttempts)
MasteryArgs ==
  {[correctAttempts |-> c, totalAttempts |-> t] :
     c \in 0 .. PureAttempts, t \in 0 .. PureAttempts} 

\* calculateNewMasteryLevel(currentMastery, performance, totalAttempts), in
\* and out of range
NewMasteryArgs ==
  {[currentMastery |-> m, performance |-> p, totalAttempts |-> t] :
     m \in {R(100 * i, MasterySteps) : i \in 0 .. MasterySteps} \cup {RInt(-10), RInt(110)},
     p \in {R(i, 2 * PerfHalfSteps) : i \in 0 .. 2 * PerfHalfSteps} \cup {RInt(-5), RInt(2)},
     t \in (0 .. StableAttempts) \cup {-3}}

\* the rows calculateQuestionPriority is given
PriorityRows ==
  {<<Row("u1", "JavaScript", R(100 * i, PriorityMasterySteps),
         StartTime - age * HalfDay, t, c)>> :
     i \in 0 .. PriorityMasterySteps, age \in 0 .. MaxAge,
     t \in 1 .. PriorityAttempts, c \in 0 .. PriorityAttempts}

\* calculateQuestionPriority(question, progress, wasRecentlyAttempted)
PriorityArgs ==
  {[question |-> Question("q", "JavaScript", d), progress |-> r,
    wasRecentlyAttempted |-> w] :
     d \in {"easy", "medium", "hard"},
     r \in {<<>>} \cup {x \in PriorityRows : x[1].correctAttempts <= x[1].totalAttempts},
     w \in BOOLEAN}

\* the data of updateUserProgress for a row with the given counters
\* (totalAttempts = 0: no row) and an answer
DataArgs ==
  {[correctAttempts |-> c, totalAttempts |-> t, isCorrect |-> ok] :
     c \in 0 .. PureAttempts, t \in 0 .. PureAttempts, ok \in BOOLEAN}

\* the performances updateMasteryLevel is called with, in and out of range
PerformanceArgs ==
  {R(i, 2 * PerfHalfSteps) : i \in 0 .. 2 * PerfHalfSteps} \cup {RInt(-5), RInt(2)}

\* calculateSpacedRepetitionInterval(currentInterval, repetitions,
\* easeFactor, performance), as the first review of an item
IntervalArgs ==
  {[currentInterval |-> d, repetitions |-> n, easeFactor |-> e,
    performance |-> R(j, PerfSteps), review |-> 1,
    newItem |-> (d = 0 /\ n = 0 /\ e = R(5, 2))] :
     d \in 0 .. MaxInterval, n \in 0 .. MaxRepetitions,
     e \in {R(i, 2) : i \in 0 .. EaseHalves} \cup {R(13, 10), R(14, 10)},
     j \in 0 .. PerfSteps}

InitPure ==
  /\ now = StartTime
  /\ progress = <<>>
  /\ calls = [c \in CallIds |-> IdleCall]
  /\ log = [k \in Keys |-> NoLog]
  /\ questions = Bank
  /\ attempts = <<>>
  /\ sel = IdleSel
  /\ sessions = Sessions
  /\ users = Users
  /\ cleanup = "idle"
  /\ eval \in
       {Pending("calculateMasteryLevel", x) :
          x \in {y \in MasteryArgs : y.correctAttempts <= y.totalAttempts}}
       \cup {Pending("calculateNewMasteryLevel", x) : x \in NewMasteryArgs}
       \cup {Pending("calculateQuestionPriority", x) : x \in PriorityArgs}
       \cup {Pending("updateUserProgressData", x) :
               x \in {y \in DataArgs : y.correctAttempts <= y.totalAttempts}}
       \cup {Pending("calculateSpacedRepetitionInterval", x) : x \in IntervalArgs}

Applied(value) ==
  /\ eval' = [eval EXCEPT !.done = TRUE, !.out = <<value>>]
  /\ UNCHANGED <<now, progress, calls, log, questions, attempts, sel, sessions,
               users, cleanup>>

EvalCalculateMasteryLevel ==
  /\ eval.fn = "calculateMasteryLevel" /\ ~eval.done
  /\ Applied(calculateMasteryLevel(eval.args.correctAttempts, eval.args.totalAttempts))

EvalCalculateNewMasteryLevel ==
  /\ eval.fn = "calculateNewMasteryLevel" /\ ~eval.done
  /\ Applied(calculateNewMasteryLevel(eval.args.currentMastery,
                                      eval.args.performance,
                                      eval.args.totalAttempts))

EvalCalculateQuestionPriority ==
  /\ eval.fn = "calculateQuestionPriority" /\ ~eval.done
  /\ Applied(calculateQuestionPriority(eval.args.question, eval.args.progress,
                                       eval.args.wasRecentlyAttempted, now))

EvalUpdateUserProgressData ==
  /\ eval.fn = "updateUserProgressData" /\ ~eval.done
  /\ Applied(UpdateUserProgressData(
       "u1", "JavaScript",
       IF eval.args.totalAttempts = 0 THEN <<>>
       ELSE <<Row("u1", "JavaScript",
                  calculateMasteryLevel(eval.args.correctAttempts,
                                        eval.args.totalAttempts),
                  StartTime - MsPerDay,
                  eval.args.totalAttempts, eval.args.correctAttempts)>>,
       eval.args.isCorrect, now))

EvalCalculateSpacedRepetitionInterval ==
  /\ eval.fn = "calculateSpacedRepetitionInterval" /\ ~eval.done
  /\ Applied(calculateSpacedRepetitionInterval(
       eval.args.currentInterval, eval.args.repetitions,
       eval.args.easeFactor, eval.args.performance))

\* the row of the store after the update with the given data
Updated(row, data) ==
  [row EXCEPT !.masteryLevel = data.masteryLevel,
              !.lastPracticed = data.lastPracticed,
              !.totalAttempts =
                 IF "totalAttempts" \in DOMAIN data THEN data.totalAttempts ELSE @]

\* updateMasteryLevel is called for the row that updateUserProgress has
\* just written
MasteryAfterProgress ==
  /\ eval.fn = "updateUserProgressData" /\ eval.done
  /\ \E p \in PerformanceArgs :
       eval' = Pending("updateMasteryLevelData",
                       [existing |-> Row("u1", "JavaScript",
                                         eval.out[1].masteryLevel,
                                         eval.out[1].lastPracticed,
                                         eval.out[1].totalAttempts,
                                         eval.out[1].correctAttempts),
                        performance |-> p, call |-> 1])
  /\ UNCHANGED <<now, progress, calls, log, questions, attempts, sel, sessions,
               users, cleanup>>

EvalUpdateMasteryLevelData ==
  /\ eval.fn = "updateMasteryLevelData" /\ ~eval.done
  /\ Applied(UpdateMasteryLevelData("u1", "JavaScript", <<eval.args.existing>>,
                                    eval.args.performance, now))

\* the next updateMasteryLevel of a sequence on a row at the ceiling: it
\* finds the row the call before has written
MasteryAfterMastery ==
  /\ eval.fn = "updateMasteryLevelData" /\ eval.done
  /\ eval.args.call < MaxMasterySequence
  /\ eval.out[1].masteryLevel = RInt(100)
  /\ \E p \in PerformanceArgs :
       eval' = Pending("updateMasteryLevelData",
                       [existing |-> Updated(eval.args.existing, eval.out[1]),
                        performance |-> p, call |-> eval.args.call + 1])
  /\ UNCHANGED <<now, progress, calls, log, questions, attempts, sel, sessions,
               users, cleanup>>

\* the next review of the item: the output is the input, with the
\* performance of that review
NextReview ==
  /\ eval.fn = "calculateSpacedRepetitionInterval" /\ eval.done
  /\ eval.args.review < MaxReviews
  /\ \E j \in 0 .. PerfSteps :
       eval' = Pending("calculateSpacedRepetitionInterval",
                       [currentInterval |-> eval.out[1].newInterval,
                        repetitions |-> eval.out[1].newRepetitions,
                        easeFactor |-> eval.out[1].newEaseFactor,
                        performance |-> R(j, PerfSteps),
                        review |-> eval.args.review + 1,
                        newItem |-> eval.args.newItem])
  /\ UNCHANGED <<now, progress, calls, log, questions, attempts, sel, sessions,
               users, cleanup>>

NextPure ==
  \/ EvalCalculateMasteryLevel
  \/ EvalCalculateNewMasteryLevel
  \/ EvalCalculateQuestionPriority
  \/ EvalUpdateUserProgressData
  \/ EvalCalculateSpacedRepetitionInterval
  \/ NextReview
  \/ MasteryAfterProgress
  \/ EvalUpdateMasteryLevelData
  \/ MasteryAfterMastery

SpecPure == InitPure /\ [][NextPure]_vars

\* ------------------------------------------------------------------------
\* LearningService.getNextQuestions and getQuestionsForReview
\* ------------------------------------------------------------------------
\* take: 20
Take == 20

\* count: number = 10
DefaultCount == 10

\* the counts getNextQuestions is called with
Counts == {-1, 0, 2, DefaultCount}

\* a QuestionAttempt row, with the userId of its session
Attempt(user, questionId, attemptedAt) ==
  [user |-> user, questionId |-> questionId, attemptedAt |-> attemptedAt,
   sessionId |-> SessionOf[user]]

\* one attempt of the learner on q3, then Take attempts on q1, and one
\* attempt of another user on q2
LongHistory ==
  <<Attempt("u1", "q3", StartTime - MsPerDay)>>
  \o [j \in 1 .. Take |-> Attempt("u1", "q1", StartTime - MsPerDay + j)]
  \o <<Attempt("u2", "q2", StartTime - 1)>>

\* rows as updateUserProgress leaves them (mastery from the counters), last
\* practised age half days before the start
Practised(user, topic, c, t, age) ==
  Row(user, topic, calculateMasteryLevel(c, t), StartTime - age * HalfDay, t, c)

\* the learner's row of a topic: none, or one of each review tier with ages
\* around the tier's interval; the rows of mastery 80 are as
\* updateMasteryLevel leaves a row created by one good answer
LearnerRows(topic) ==
  {<<>>}
  \cup {<<Practised("u1", topic, 0, 3, 16)>>}
  \cup {<<Practised("u1", topic, 1, 5, age)>> : age \in {1, 2}}
  \cup {<<Practised("u1", topic, 1, 2, age)>> : age \in {0, 1, 2}}
  \cup {<<Practised("u1", topic, 3, 5, age)>> : age \in {5, 6}}
  \cup {<<Practised("u1", topic, 8, 10, age)>> : age \in {13, 14, 16}}
  \cup {<<Row("u1", topic, RInt(80), StartTime - age * HalfDay, 1, 1)>> :
          age \in {6, 13, 14}}

\* the tables a selector run starts from: a row of another user that is
\* due, the learner's JavaScript row, and with some of them a React row
SelectTables ==
  {<<Practised("u2", "JavaScript", 1, 2, 16)>> \o js : js \in LearnerRows("JavaScript")}
  \cup {<<Practised("u2", "JavaScript", 1, 2, 16)>> \o js \o re :
          js \in {<<>>, <<Practised("u1", "JavaScript", 1, 2, 1)>>,
                  <<Row("u1", "JavaScript", RInt(80), StartTime - 13 * HalfDay, 1, 1)>>},
          re \in {<<Practised("u1", "React", 1, 2, 0)>>,
                  <<Practised("u1", "React", 8, 10, 16)>>}}

\* with the long history, the tables with no row or two rows of the
\* learner, and the table of a learner who has not answered correctly yet
SelectSeeds ==
  {<<t, <<>>>> : t \in SelectTables}
  \cup {<<t, LongHistory>> :
          t \in {x \in SelectTables : Len(x) # 2 \/ x[2].correctAttempts = 0}}

InitSelect ==
  /\ now = StartTime
  /\ \E seed \in SelectSeeds : progress = seed[1] /\ attempts = seed[2]
  /\ calls = [c \in {1} |-> IdleCall]
  /\ log = [k \in Keys |-> NoLog]
  /\ questions = Bank
  /\ sel = IdleSel
  /\ sessions = Sessions
  /\ users = Users
  /\ cleanup = "idle"
  /\ eval = NoEval

\* prisma.userProgress.findMany({ where: { userId } })
findManyProgress(user) == SelectSeq(progress, LAMBDA r : r.userId = user)

\* the questionIds of prisma.questionAttempt.findMany({ where: { session:
\* { userId } }, orderBy: { attemptedAt: 'desc' }, take: 20 })
recentQuestionIds(user) ==
  LET mine == {j \in DOMAIN attempts : attempts[j].user = user}
      newer(j) == {k \in mine : attempts[k].attemptedAt > attempts[j].attemptedAt
                                \/ (attempts[k].attemptedAt = attempts[j].attemptedAt /\ k > j)}
  IN  {attempts[j].questionId : j \in {k \in mine : Cardinality(newer(k)) < Take}}

\* userProgress.find(p => p.topic === question.topic)
find(userProgress, topic) ==
  LET hits == SelectSeq(userProgress, LAMBDA r : r.topic = topic)
  IN  IF hits # <<>> THEN <<hits[1]>> ELSE <<>>

\* progress?.masteryLevel || 0
masteryOrZero(row) == IF row # <<>> THEN row[1].masteryLevel ELSE RInt(0)

\* allQuestions.map(question => ({ question, priority, masteryLevel }))
prioritise(allQuestions, userProgress, recent, dateNow) ==
  [j \in DOMAIN allQuestions |->
     LET row == find(userProgress, allQuestions[j].topic)
     IN  [question |-> allQuestions[j],
          priority |-> calculateQuestionPriority(allQuestions[j], row,
                                                 allQuestions[j].id \in recent, dateNow),
          masteryLevel |-> masteryOrZero(row)]]

\* mutant: the comparator without the tie on the mastery level
compareNoTie(a, b) == RSub(b.priority, a.priority)

\* the comparator given to sort
compare(a, b) ==
  IF a.priority # b.priority
  THEN RSub(b.priority, a.priority)
  ELSE RSub(a.masteryLevel, b.masteryLevel)

\* x placed behind every element of the sorted s that does not come after it
Insert(x, s) ==
  LET behind == {j \in DOMAIN s : RGt(compare(s[j], x), RInt(0))}
      at == IF behind = {} THEN Len(s) + 1
            ELSE CHOOSE j \in behind : \A k \in behind : j <= k
  IN  SubSeq(s, 1, at - 1) \o <<x>> \o SubSeq(s, at, Len(s))

\* Array.prototype.sort: stable
RECURSIVE sort(_)
sort(s) ==
  IF s = <<>> THEN <<>>
  ELSE Insert(s[Len(s)], sort(SubSeq(s, 1, Len(s) - 1)))

\* Array.prototype.slice(0, end)
slice(s, end) ==
  SubSeq(s, 1, IF end < 0 THEN Max(Len(s) + end, 0) ELSE Min(end, Len(s)))

\* getNextQuestions: await prisma.userProgress.findMany
GetNextQuestionsProgress ==
  /\ sel.pc = "idle"
  /\ \E u \in Learners, n \in Counts :
       sel' = [IdleSel EXCEPT !.pc = "attempts", !.op = "getNextQuestions",
                              !.user = u, !.count = n, !.store = progress,
                              !.userProgress = findManyProgress(u)]
  /\ UNCHANGED <<now, progress, calls, log, questions, attempts, eval, sessions,
               users, cleanup>>

\* getNextQuestions is called once more, with the same learner and count
GetNextQuestionsAgain ==
  /\ sel.pc = "done" /\ sel.op = "getNextQuestions" /\ sel.previous = <<>>
  /\ sel' = [IdleSel EXCEPT !.pc = "attempts", !.op = "getNextQuestions",
                            !.user = sel.user, !.count = sel.count,
                            !.store = progress,
                            !.userProgress = findManyProgress(sel.user),
                            !.previous = <<[result |-> sel.result, at |-> sel.at,
                                            store |-> sel.store]>>]
  /\ UNCHANGED <<now, progress, calls, log, questions, attempts, eval, sessions,
               users, cleanup>>

\* getNextQuestions: await prisma.questionAttempt.findMany
GetNextQuestionsAttempts ==
  /\ sel.pc = "attempts"
  /\ sel' = [sel EXCEPT !.pc = "questions",
                        !.recentQuestionIds = recentQuestionIds(sel.user)]
  /\ UNCHANGED <<now, progress, calls, log, questions, attempts, eval, sessions,
               users, cleanup>>

\* mutant: getNextQuestions records the questions it returns as attempts of
\* the learner
GetNextQuestionsRankRecording ==
  /\ sel.pc = "questions"
  /\ LET questionPriorities ==
           sort(prioritise(questions, sel.userProgress, sel.recentQuestionIds, now))
         top == slice(questionPriorities, sel.count)
     IN  /\ sel' = [sel EXCEPT !.pc = "done", !.at = now,
                               !.result = [j \in DOMAIN top |-> top[j].question]]
         /\ attempts' = attempts \o [j \in DOMAIN top |->
                                      [user |-> sel.user,
                                       questionId |-> top[j].question.id,
                                       attemptedAt |-> now,
                                       sessionId |-> SessionOf[sel.user]]]
  /\ UNCHANGED <<now, progress, calls, log, questions, eval, sessions, users,
               cleanup>>

\* getNextQuestions: await prisma.question.findMany, map, sort, slice
GetNextQuestionsRank ==
  /\ sel.pc = "questions"
  /\ LET questionPriorities ==
           sort(prioritise(questions, sel.userProgress, sel.recentQuestionIds, now))
         top == slice(questionPriorities, sel.count)
     IN  sel' = [sel EXCEPT !.pc = "done", !.at = now,
                            !.result = [j \in DOMAIN top |-> top[j].question]]
  /\ UNCHANGED <<now, progress, calls, log, questions, attempts, eval, sessions,
               users, cleanup>>

\* mutant: a topic of mastery below 30 is reviewed on the day it was
\* practised
reviewIntervalAtOnce(masteryLevel) ==
  IF RGe(masteryLevel, RInt(80)) THEN 7
  ELSE IF RGe(masteryLevel, RInt(60)) THEN 3
  ELSE IF RGe(masteryLevel, RInt(30)) THEN 1
  ELSE 0

\* mutant: weekly review only above mastery 80
reviewIntervalAbove(masteryLevel) ==
  IF RGt(masteryLevel, RInt(80)) THEN 7
  ELSE IF RGe(masteryLevel, RInt(60)) THEN 3
  ELSE 1

\* reviewInterval of getQuestionsForReview
reviewInterval(masteryLevel) ==
  IF RGe(masteryLevel, RInt(80)) THEN 7
  ELSE IF RGe(masteryLevel, RInt(60)) THEN 3
  ELSE 1

\* getQuestionsForReview: await prisma.userProgress.findMany
GetQuestionsForReviewProgress ==
  /\ sel.pc = "idle"
  /\ \E u \in Learners :
       sel' = [IdleSel EXCEPT !.pc = "rows", !.op = "getQuestionsForReview",
                              !.user = u, !.store = progress, !.i = 1,
                              !.userProgress = findManyProgress(u)]
  /\ UNCHANGED <<now, progress, calls, log, questions, attempts, eval, sessions,
               users, cleanup>>

\* mutant: the questions of every topic with a row are collected, due or
\* not
GetQuestionsForReviewRowAlways ==
  /\ sel.pc = "rows" /\ sel.i <= Len(sel.userProgress)
  /\ LET row == sel.userProgress[sel.i]
         topicQuestions == SelectSeq(questions, LAMBDA q : q.topic = row.topic)
     IN  sel' = [sel EXCEPT
                   !.i = @ + 1,
                   !.examined = Append(@, [topic |-> row.topic, at |-> now]),
                   !.questionsForReview =
                      @ \o [j \in DOMAIN topicQuestions |-> topicQuestions[j].id]]
  /\ UNCHANGED <<now, progress, calls, log, questions, attempts, eval, sessions,
               users, cleanup>>

\* getQuestionsForReview: one turn of the loop over the rows, with its
\* prisma.question.findMany({ where: { topic } }) when the row is due
GetQuestionsForReviewRow ==
  /\ sel.pc = "rows" /\ sel.i <= Len(sel.userProgress)
  /\ LET row == sel.userProgress[sel.i]
         due == daysSinceLastPractice(now, row.lastPracticed)
                  >= reviewInterval(row.masteryLevel)
         topicQuestions == SelectSeq(questions, LAMBDA q : q.topic = row.topic)
     IN  sel' = [sel EXCEPT
                   !.i = @ + 1,
                   !.examined = Append(@, [topic |-> row.topic, at |-> now]),
                   !.questionsForReview =
                      IF due THEN @ \o [j \in DOMAIN topicQuestions |-> topicQuestions[j].id]
                      ELSE @]
  /\ UNCHANGED <<now, progress, calls, log, questions, attempts, eval, sessions,
               users, cleanup>>

\* getQuestionsForReview: return await prisma.question.findMany({ where:
\* { id: { in: questionsForReview } } })
GetQuestionsForReviewFetch ==
  /\ sel.pc = "rows" /\ sel.i > Len(sel.userProgress)
  /\ sel' = [sel EXCEPT
               !.pc = "done",
               !.result = SelectSeq(questions, LAMBDA q :
                            \E j \in DOMAIN sel.questionsForReview :
                              sel.questionsForReview[j] = q.id)]
  /\ UNCHANGED <<now, progress, calls, log, questions, attempts, eval, sessions,
               users, cleanup>>

\* ---- LearningService.getTopicRecommendations ----
\* mutant: mastery 80 still counts as good mastery
baseRecommendationUpTo80(found) ==
  IF found = <<>>
  THEN [priority |-> 80, reason |-> "New topic - start learning"]
  ELSE IF RLt(found[1].masteryLevel, RInt(30))
  THEN [priority |-> 90, reason |-> "Low mastery - needs immediate attention"]
  ELSE IF RLt(found[1].masteryLevel, RInt(60))
  THEN [priority |-> 70, reason |-> "Moderate mastery - continue practicing"]
  ELSE IF RLe(found[1].masteryLevel, RInt(80))
  THEN [priority |-> 40, reason |-> "Good mastery - occasional review"]
  ELSE [priority |-> 20, reason |-> "High mastery - maintenance only"]

\* priority and reason by the mastery of the topic's row
baseRecommendation(found) ==
  IF found = <<>>
  THEN [priority |-> 80, reason |-> "New topic - start learning"]
  ELSE IF RLt(found[1].masteryLevel, RInt(30))
  THEN [priority |-> 90, reason |-> "Low mastery - needs immediate attention"]
  ELSE IF RLt(found[1].masteryLevel, RInt(60))
  THEN [priority |-> 70, reason |-> "Moderate mastery - continue practicing"]
  ELSE IF RLt(found[1].masteryLevel, RInt(80))
  THEN [priority |-> 40, reason |-> "Good mastery - occasional review"]
  ELSE [priority |-> 20, reason |-> "High mastery - maintenance only"]

\* allTopics.map(topicData => ({ topic, reason, priority }))
recommend(topic, userProgress, dateNow) ==
  LET row == find(userProgress, topic)
      base == baseRecommendation(row)
      priority == IF row = <<>> THEN base.priority
                  ELSE base.priority
                       + Min(daysSinceLastPractice(dateNow, row[1].lastPracticed) * 2, 20)
  IN  [topic |-> topic, reason |-> base.reason, priority |-> Min(100, priority)]

\* the answers prisma.question.groupBy({ by: ['topic'] }) can give: the
\* distinct topics of the questions, in any order
groupByTopic ==
  LET topics == {questions[j].topic : j \in DOMAIN questions}
  IN  {order \in [1 .. Cardinality(topics) -> topics] :
         \A j, k \in DOMAIN order : j # k => order[j] # order[k]}

\* x placed behind every recommendation of the sorted s whose priority is
\* not lower
InsertRecommendation(x, s) ==
  LET behind == {j \in DOMAIN s : x.priority - s[j].priority > 0}
      at == IF behind = {} THEN Len(s) + 1
            ELSE CHOOSE j \in behind : \A k \in behind : j <= k
  IN  SubSeq(s, 1, at - 1) \o <<x>> \o SubSeq(s, at, Len(s))

\* recommendations.sort((a, b) => b.priority - a.priority)
RECURSIVE sortRecommendations(_)
sortRecommendations(s) ==
  IF s = <<>> THEN <<>>
  ELSE InsertRecommendation(s[Len(s)], sortRecommendations(SubSeq(s, 1, Len(s) - 1)))

\* getTopicRecommendations: await prisma.userProgress.findMany
GetTopicRecommendationsProgress ==
  /\ sel.pc = "idle"
  /\ \E u \in Learners :
       sel' = [IdleSel EXCEPT !.pc = "topics", !.op = "getTopicRecommendations",
                              !.user = u, !.store = progress,
                              !.userProgress = findManyProgress(u)]
  /\ UNCHANGED <<now, progress, calls, log, questions, attempts, eval, sessions,
               users, cleanup>>

\* getTopicRecommendations: await prisma.question.groupBy, map, sort
GetTopicRecommendationsRank ==
  /\ sel.pc = "topics"
  /\ \E allTopics \in groupByTopic :
       sel' = [sel EXCEPT
                 !.pc = "done", !.at = now,
                 !.result = sortRecommendations(
                              [j \in DOMAIN allTopics |->
                                 recommend(allTopics[j], sel.userProgress, now)])]
  /\ UNCHANGED <<now, progress, calls, log, questions, attempts, eval, sessions,
               users, cleanup>>

\* ---- LearningService.getLearningRecommendations ----
TopRecommendations == 20

\* the reason by the mastery of the topic's row
learningReason(found) ==
  IF found = <<>> THEN "New topic - start learning"
  ELSE IF RLt(found[1].masteryLevel, RInt(30)) THEN "Low mastery - needs practice"
  ELSE IF RLt(found[1].masteryLevel, RInt(70))
  THEN "Moderate mastery - continue practicing"
  ELSE "High mastery - maintain knowledge"

\* allQuestions.forEach(question => recommendations.push({ questionId,
\* priority, reason, topic }))
recommendQuestions(allQuestions, userProgress, dateNow) ==
  [j \in DOMAIN allQuestions |->
     LET row == find(userProgress, allQuestions[j].topic)
     IN  [questionId |-> allQuestions[j].id,
          priority |-> calculateQuestionPriority(allQuestions[j], row, FALSE,
                                                 dateNow),
          reason |-> learningReason(row),
          topic |-> allQuestions[j].topic]]

\* x placed behind every recommendation of the sorted s whose priority is
\* not lower
InsertLearning(x, s) ==
  LET behind == {j \in DOMAIN s : RGt(RSub(x.priority, s[j].priority), RInt(0))}
      at == IF behind = {} THEN Len(s) + 1
            ELSE CHOOSE j \in behind : \A k \in behind : j <= k
  IN  SubSeq(s, 1, at - 1) \o <<x>> \o SubSeq(s, at, Len(s))

\* recommendations.sort((a, b) => b.priority - a.priority)
RECURSIVE sortLearning(_)
sortLearning(s) ==
  IF s = <<>> THEN <<>>
  ELSE InsertLearning(s[Len(s)], sortLearning(SubSeq(s, 1, Len(s) - 1)))

\* getLearningRecommendations: await prisma.userProgress.findMany
GetLearningRecommendationsProgress ==
  /\ sel.pc = "idle"
  /\ \E u \in Learners :
       sel' = [IdleSel EXCEPT !.pc = "bank", !.op = "getLearningRecommendations",
                              !.user = u, !.store = progress,
                              !.userProgress = findManyProgress(u)]
  /\ UNCHANGED <<now, progress, calls, log, questions, attempts, eval, sessions,
               users, cleanup>>

\* getLearningRecommendations: await prisma.question.findMany, forEach,
\* sort, slice
GetLearningRecommendationsRank ==
  /\ sel.pc = "bank"
  /\ sel' = [sel EXCEPT
               !.pc = "done", !.at = now,
               !.result = slice(sortLearning(recommendQuestions(
                                  questions, sel.userProgress, now)),
                                TopRecommendations)]
  /\ UNCHANGED <<now, progress, calls, log, questions, attempts, eval, sessions,
               users, cleanup>>

\* ---- a store call of a selector is rejected ----
ReadOperations ==
  {"getNextQuestions", "getQuestionsForReview", "getTopicRecommendations",
   "getLearningRecommendations"}

\* the first findMany of a selector is rejected, or a later store call is:
\* every await is inside the one try block, whose catch throws
SelectThrows ==
  /\ sel.pc \notin {"done", "err"}
  /\ \E op \in ReadOperations, u \in Learners :
       /\ sel.pc # "idle" => op = sel.op /\ u = sel.user
       /\ sel' = [IdleSel EXCEPT !.pc = "err", !.op = op, !.user = u,
                                 !.error = caught(op, StoreUnavailable)]
  /\ UNCHANGED <<now, progress, calls, log, questions, attempts, eval, sessions,
               users, cleanup>>

\* the update call of the run begins while the selector call is running: a
\* correct answer to a JavaScript question
Beside ==
  /\ sel.pc \notin {"idle", "done", "err"}
  /\ calls'[1].topic = "JavaScript" /\ calls'[1].isCorrect

NextSelect ==
  \/ Tick
  \/ GetNextQuestionsProgress
  \/ GetNextQuestionsAgain
  \/ GetNextQuestionsAttempts
  \/ GetNextQuestionsRank
  \/ GetQuestionsForReviewProgress
  \/ GetQuestionsForReviewRow
  \/ GetQuestionsForReviewFetch
  \/ GetTopicRecommendationsProgress
  \/ GetTopicRecommendationsRank
  \/ GetLearningRecommendationsProgress
  \/ GetLearningRecommendationsRank
  \/ SelectThrows
  \/ UpdateUserProgressFind(1) /\ Beside
  \/ UpdateUserProgressWrite(1)

SpecSelect == InitSelect /\ [][NextSelect]_vars

\* ------------------------------------------------------------------------
\* getQuestionsForReview before, beside and after one update call of the
\* learner, on a clock that advances
\* ------------------------------------------------------------------------
\* the learner's row of a topic: none, or one that is due for review, of
\* low or of high mastery
DueRows(topic) ==
  {<<>>, <<Practised("u1", topic, 1, 2, 16)>>, <<Practised("u1", topic, 8, 10, 16)>>}

DueTables == {js \o re : js \in DueRows("JavaScript"), re \in DueRows("React")}

InitDue ==
  /\ now = StartTime
  /\ progress \in DueTables
  /\ calls = [c \in {1} |-> IdleCall]
  /\ log = [k \in Keys |-> NoLog]
  /\ questions = Bank
  /\ attempts = <<>>
  /\ sel = IdleSel
  /\ sessions = Sessions
  /\ users = Users
  /\ cleanup = "idle"
  /\ eval = NoEval

\* the clock advances
Elapse ==
  /\ now < StartTime + MaxElapsed * HalfDay
  /\ now' = now + HalfDay
  /\ UNCHANGED <<progress, calls, log, others>>

NextDue ==
  \/ Elapse
  \/ UpdateUserProgressFind(1)
  \/ UpdateUserProgressWrite(1)
  \/ UpdateMasteryLevelFind(1)
  \/ UpdateMasteryLevelWrite(1)
  \/ GetQuestionsForReviewProgress
  \/ GetQuestionsForReviewRow
  \/ GetQuestionsForReviewFetch

SpecDue == InitDue /\ [][NextDue]_vars

\* ------------------------------------------------------------------------
\* getQuestionsForReview while updateQuestion and deleteQuestion change the
\* bank between its store reads
\* ------------------------------------------------------------------------
\* the ids updateQuestion is called with
UpdatedIds == {"q1", "q2", "q9"}

\* questionData: UpdateQuestionDto
QuestionData == {[topic |-> t] : t \in Topics} \cup {[difficulty |-> "hard"]}

\* the catch block of updateQuestion
catchUpdateQuestion(error) ==
  IF error.known
  THEN IF error.message = "P2025" THEN "Question not found"
       ELSE DatabaseError(error)
  ELSE "Failed to update question: " \o error.message

\* QuestionService.updateQuestion
UpdateQuestion(c) ==
  /\ CanBegin(c)
  /\ \E id \in UpdatedIds, questionData \in QuestionData :
       IF id \notin StoredIds
       THEN /\ calls' = [calls EXCEPT ![c] =
                           [IdleCall EXCEPT !.pc = "err", !.op = "updateQuestion",
                                            !.error = catchUpdateQuestion(
                                                        RecordNotFound)]]
            /\ UNCHANGED questions
       ELSE LET row == questions[CHOOSE j \in DOMAIN questions : questions[j].id = id]
                updated == [f \in DOMAIN row |->
                              IF f \in DOMAIN questionData THEN questionData[f]
                              ELSE row[f]]
            IN  /\ questions' = [j \in DOMAIN questions |->
                                   IF questions[j].id = id THEN updated
                                   ELSE questions[j]]
                /\ calls' = [calls EXCEPT ![c] =
                               [IdleCall EXCEPT !.pc = "ok", !.op = "updateQuestion",
                                                !.result = <<updated>>]]
  /\ UNCHANGED <<now, progress, log, attempts, sel, eval, sessions, users,
                 cleanup>>

\* the learner's row of a topic: none, one due for review, one practised
\* today
BankRows(topic) ==
  {<<>>, <<Practised("u1", topic, 1, 2, 16)>>, <<Practised("u1", topic, 1, 2, 0)>>}

InitBank ==
  /\ now = StartTime
  /\ progress \in {js \o re : js \in BankRows("JavaScript"),
                               re \in BankRows("React")}
  /\ calls = [c \in {1} |-> IdleCall]
  /\ log = [k \in Keys |-> NoLog]
  /\ questions = Bank
  /\ attempts = <<>>
  /\ sel = IdleSel
  /\ sessions = Sessions
  /\ users = Users
  /\ cleanup = "idle"
  /\ eval = NoEval

NextBank ==
  \/ GetQuestionsForReviewProgress
  \/ GetQuestionsForReviewRow
  \/ GetQuestionsForReviewFetch
  \/ UpdateQuestion(1)
  \/ DeleteQuestion(1)
  \/ Return(1)

SpecBank == InitBank /\ [][NextBank]_vars

\* ------------------------------------------------------------------------
\* Properties of the update calls
\* ------------------------------------------------------------------------
KeyOf(c) == <<calls[c].user, calls[c].topic>>

\* C1: every stored masteryLevel lies in [0, 100], after any interleaving of
\* updateUserProgress and updateMasteryLevel calls, whatever the performance
C1_MasteryInRange ==
  \A i \in DOMAIN progress :
    /\ RGe(progress[i].masteryLevel, RInt(0))
    /\ RLe(progress[i].masteryLevel, RInt(100))

\* an updateMasteryLevel call with a performance below 0 has lowered the
\* masteryLevel of an existing row
C1_Witness ==
  \E c \in DOMAIN calls :
    /\ calls[c].pc = "ok"
    /\ calls[c].op = "updateMasteryLevel"
    /\ RLt(calls[c].performance, RInt(0))
    /\ calls[c].existing # <<>>
    /\ RLt(calls[c].result[1].masteryLevel, calls[c].existing[1].masteryLevel)

\* C2: every row has 0 <= correctAttempts <= totalAttempts and
\* totalAttempts >= 1
C2_CountersConsistent ==
  \A i \in DOMAIN progress :
    /\ 0 <= progress[i].correctAttempts
    /\ progress[i].correctAttempts <= progress[i].totalAttempts
    /\ progress[i].totalAttempts >= 1

\* a correct attempt has been counted on a row whose attempts were all
\* correct before: the row stays at correctAttempts = totalAttempts
C2_Witness ==
  \E c \in DOMAIN calls :
    /\ calls[c].pc = "ok"
    /\ calls[c].op = "updateUserProgress"
    /\ calls[c].isCorrect
    /\ calls[c].existing # <<>>
    /\ calls[c].existing[1].correctAttempts = calls[c].existing[1].totalAttempts
    /\ calls[c].result[1].correctAttempts = calls[c].result[1].totalAttempts

\* two updateUserProgress calls that were answered the same existing row
\* and have both returned a row
Raced(a, b) ==
  /\ a # b
  /\ calls[a].op = "updateUserProgress" /\ calls[b].op = "updateUserProgress"
  /\ KeyOf(a) = KeyOf(b)
  /\ calls[a].pc = "ok" /\ calls[b].pc = "ok"
  /\ calls[a].existing # <<>> /\ calls[a].existing = calls[b].existing

\* no call other than a and b has been made for the key of a
OnlyThese(a, b) ==
  \A c \in DOMAIN calls \ {a, b} : Started(c) => KeyOf(c) # KeyOf(a)

\* C3: updateUserProgress is a read-then-write: when two calls are answered
\* the same row with totalAttempts = n and both succeed, each writes n + 1,
\* and the row is left with n + 1 although two attempts were recorded
C3_LostUpdate ==
  \A a, b \in DOMAIN calls :
    Raced(a, b) =>
      /\ calls[a].result[1].totalAttempts = calls[a].existing[1].totalAttempts + 1
      /\ calls[b].result[1].totalAttempts = calls[a].existing[1].totalAttempts + 1
      /\ OnlyThese(a, b) =>
           /\ log[KeyOf(a)].ups = 2
           /\ findUnique(calls[a].user, calls[a].topic)[1].totalAttempts
                = calls[a].existing[1].totalAttempts + 1

\* the interleaving has happened: two successful calls, one attempt counted
C3_Witness ==
  \E a, b \in DOMAIN calls :
    /\ Raced(a, b)
    /\ OnlyThese(a, b)
    /\ log[KeyOf(a)].ups = 2
    /\ findUnique(calls[a].user, calls[a].topic)[1].totalAttempts
         = calls[a].existing[1].totalAttempts + 1

\* the calls (of either operation) that were answered 'no row' for the key
\* and have ended
Creators(k) ==
  {c \in DOMAIN calls :
     KeyOf(c) = k /\ calls[c].pc \in {"ok", "err"} /\ calls[c].existing = <<>>}

\* every call made for the key was answered 'no row'
OnlyCreators(k) ==
  \A c \in DOMAIN calls : Started(c) /\ KeyOf(c) = k => calls[c].existing = <<>>

\* C4: the table never holds two rows of one (learner, topic); of the calls
\* that read 'no row' for a key exactly one create succeeds, every other
\* one ends with a database error, and the row is the winner's alone
C4_UniqueRow ==
  /\ \A u \in Users, t \in Topics : Len(RowsOf(u, t)) <= 1
  /\ \A k \in Keys :
       Creators(k) # {} =>
         /\ Cardinality({c \in Creators(k) : calls[c].pc = "ok"}) = 1
         /\ \A c \in Creators(k) :
              calls[c].pc = "err" =>
                calls[c].error = "Database error: P2002" /\ calls[c].result = <<>>
         /\ OnlyCreators(k) =>
              \E c \in Creators(k) :
                /\ calls[c].pc = "ok"
                /\ calls[c].result[1].totalAttempts = 1
                /\ findUnique(k[1], k[2]) = calls[c].result

\* the create race has happened: two calls read 'no row', one created the
\* row, the other was refused
C4_Witness ==
  \E a, b \in DOMAIN calls :
    /\ a # b /\ KeyOf(a) = KeyOf(b)
    /\ {a, b} \subseteq Creators(KeyOf(a))
    /\ calls[a].pc = "ok" /\ calls[b].pc = "err"
    /\ findUnique(calls[a].user, calls[a].topic) = calls[a].result

\* C5: with updateUserProgress calls made one at a time, a (learner, topic)
\* that only they have written has totalAttempts = the number of successful
\* calls and correctAttempts = the number of them with isCorrect; the first
\* call creates the row at 1 and 1 or 0, each later one adds 1 and 1 or 0
C5_SerialCounts ==
  /\ \A k \in Learners \X Topics :
       log[k].ums = 0 =>
         IF log[k].ups = 0
         THEN RowsOf(k[1], k[2]) = <<>>
         ELSE /\ Len(RowsOf(k[1], k[2])) = 1
              /\ RowsOf(k[1], k[2])[1].totalAttempts = log[k].ups
              /\ RowsOf(k[1], k[2])[1].correctAttempts = log[k].correct
  /\ \A c \in DOMAIN calls :
       calls[c].pc = "ok" /\ calls[c].op = "updateUserProgress" =>
         LET inc == IF calls[c].isCorrect THEN 1 ELSE 0
             row == calls[c].result[1]
         IN  /\ findUnique(calls[c].user, calls[c].topic) = <<row>>
             /\ IF calls[c].existing = <<>>
                THEN row.totalAttempts = 1 /\ row.correctAttempts = inc
                ELSE /\ row.totalAttempts = calls[c].existing[1].totalAttempts + 1
                     /\ row.correctAttempts = calls[c].existing[1].correctAttempts + inc

\* five calls for one topic, three of them correct, have returned
C5_Witness ==
  \E k \in Learners \X Topics :
    /\ log[k].ums = 0
    /\ log[k].ups = 5
    /\ log[k].correct = 3
    /\ \A c \in DOMAIN calls : ~InFlight(c)


\* ------------------------------------------------------------------------
\* Properties of the pure functions
\* ------------------------------------------------------------------------
Evaluated(fn) == eval.fn = fn /\ eval.done

Clamp100(x) == RMax(RInt(0), RMin(RInt(100), x))

\* 50 + mastery + recency + difficulty - repetition + success rate, as the
\* specification of the priority score words it
PriorityByRule(a) ==
  LET has  == a.progress # <<>>
      row  == a.progress[1]
      days == (now - row.lastPracticed) \div MsPerDay
      rate == R(row.correctAttempts, row.totalAttempts)
  IN  RAdd(RInt(50),
      RAdd(IF has THEN RDiv(RSub(RInt(100), row.masteryLevel), RInt(2)) ELSE RInt(25),
      RAdd(IF has THEN RInt(IF 2 * days < 20 THEN 2 * days ELSE 20) ELSE RInt(0),
      RAdd(CASE a.question.difficulty = "easy" -> RInt(5)
             [] a.question.difficulty = "medium" -> RInt(10)
             [] a.question.difficulty = "hard" -> RInt(15),
      RAdd(IF a.wasRecentlyAttempted THEN RInt(-30) ELSE RInt(0),
           IF has /\ row.totalAttempts > 0
           THEN (IF RLt(rate, R(1, 2)) THEN RInt(20)
                 ELSE IF RGt(rate, R(4, 5)) THEN RInt(-10) ELSE RInt(0))
           ELSE RInt(0))))))

\* C8: calculateQuestionPriority returns the clamp to [0, 100] of the sum of
\* the five factors on the base 50; a medium question of a new topic scores
\* 85, and 55 when recently attempted; the score is always within [0, 100]
C8_PriorityFormula ==
  Evaluated("calculateQuestionPriority") =>
    /\ eval.out[1] = Clamp100(PriorityByRule(eval.args))
    /\ RGe(eval.out[1], RInt(0)) /\ RLe(eval.out[1], RInt(100))
    /\ eval.args.progress = <<>> /\ eval.args.question.difficulty = "medium" =>
         eval.out[1] = IF eval.args.wasRecentlyAttempted THEN RInt(55) ELSE RInt(85)

\* a row practised more than ten days ago has been scored, with the recency
\* bonus at its cap and a score below the upper clamp
C8_Witness ==
  /\ Evaluated("calculateQuestionPriority")
  /\ eval.args.progress # <<>>
  /\ (now - eval.args.progress[1].lastPracticed) \div MsPerDay > 10
  /\ RLt(eval.out[1], RInt(100))
  /\ eval.args.wasRecentlyAttempted

\* currentMastery + change * (1 + min(1, totalAttempts / 10)), as the
\* specification of the mastery model words it
NewMasteryByRule(m, p, t) ==
  LET learningRate == RMul(R(1, 10), RSub(RInt(1), RDiv(m, RInt(100))))
      change == IF RGt(p, R(1, 2))
                THEN RMul(RMul(learningRate, RSub(p, R(1, 2))), RInt(100))
                ELSE RNeg(RMul(RMul(learningRate, RSub(R(1, 2), p)), RInt(50)))
      stability == RAdd(RInt(1), RMin(RInt(1), R(t, 10)))
  IN  RAdd(m, RMul(change, stability))

InRange(a) ==
  /\ RGe(a.currentMastery, RInt(0)) /\ RLe(a.currentMastery, RInt(100))
  /\ RGe(a.performance, RInt(0)) /\ RLe(a.performance, RInt(1))
  /\ a.totalAttempts >= 0

\* what a hit at the mirrored performance 1 - p adds to the mastery
HitMove(a) ==
  RSub(calculateNewMasteryLevel(a.currentMastery,
                                RSub(RInt(1), a.performance), a.totalAttempts),
       a.currentMastery)

\* the formula of C9 and its first three consequences
C9_Formula ==
  /\ eval.out[1] = Clamp100(NewMasteryByRule(eval.args.currentMastery,
                                             eval.args.performance,
                                             eval.args.totalAttempts))
  /\ eval.args.performance = R(1, 2) => eval.out[1] = eval.args.currentMastery
  /\ RGt(eval.args.performance, R(1, 2)) => RGe(eval.out[1], eval.args.currentMastery)
  /\ RLt(eval.args.performance, R(1, 2)) => RLe(eval.out[1], eval.args.currentMastery)

\* C9 as claimed: for in-range arguments calculateNewMasteryLevel returns the
\* clamped formula; performance 0.5 leaves mastery unchanged, above 0.5 never
\* lowers it, below 0.5 never raises it, and a miss at distance d below 0.5
\* moves mastery by half of what a hit at distance d above 0.5 does
C9_Original ==
  Evaluated("calculateNewMasteryLevel") /\ InRange(eval.args) =>
    /\ C9_Formula
    /\ RLt(eval.args.performance, R(1, 2)) =>
         RMul(RInt(2), RSub(eval.args.currentMastery, eval.out[1])) = HitMove(eval.args)

\* C9 (amended): as claimed, except that the miss moves mastery by half of
\* the hit's move only while the clamp at 0 does not cut it short; when the
\* unclamped value is negative the result is 0 and the move is less than half
C9_NewMastery ==
  Evaluated("calculateNewMasteryLevel") /\ InRange(eval.args) =>
    /\ C9_Formula
    /\ RLt(eval.args.performance, R(1, 2)) =>
         IF RGe(NewMasteryByRule(eval.args.currentMastery, eval.args.performance,
                                 eval.args.totalAttempts), RInt(0))
         THEN RMul(RInt(2), RSub(eval.args.currentMastery, eval.out[1]))
                = HitMove(eval.args)
         ELSE /\ eval.out[1] = RInt(0)
              /\ RLt(RMul(RInt(2), RSub(eval.args.currentMastery, eval.out[1])),
                     HitMove(eval.args))

\* a miss has lowered a mastery by half of the mirrored hit's gain
C9_Witness ==
  /\ Evaluated("calculateNewMasteryLevel") /\ InRange(eval.args)
  /\ RLt(eval.args.performance, R(1, 2))
  /\ RLt(eval.out[1], eval.args.currentMastery)
  /\ RGt(eval.out[1], RInt(0))
  /\ RMul(RInt(2), RSub(eval.args.currentMastery, eval.out[1])) = HitMove(eval.args)

\* min(100, 100 * correct / total + bonus), as the specification of the
\* accuracy-based mastery words it
AccuracyByRule(c, t) ==
  IF t = 0 THEN RInt(0)
  ELSE LET bonus == IF t >= 5 /\ 10 * c >= 8 * t
                    THEN RMin(RInt(10), R(t, 2))
                    ELSE RInt(0)
       IN  RMin(RInt(100), RAdd(R(100 * c, t), bonus))

\* C10: the mastery updateUserProgress stores is min(100, 100 * correct /
\* total + bonus), bonus = min(10, total / 2) from 5 attempts and accuracy
\* 0.8 on, else 0 (8 of 10 gives 85); for totalAttempts = 0 the formula is 0
C10_AccuracyMastery ==
  /\ Evaluated("calculateMasteryLevel") =>
       /\ eval.out[1] = AccuracyByRule(eval.args.correctAttempts, eval.args.totalAttempts)
       /\ eval.args.totalAttempts = 0 => eval.out[1] = RInt(0)
       /\ eval.args.correctAttempts = 8 /\ eval.args.totalAttempts = 10 =>
            eval.out[1] = RInt(85)
  /\ Evaluated("updateUserProgressData") =>
       /\ eval.out[1].totalAttempts = eval.args.totalAttempts + 1
       /\ eval.out[1].masteryLevel =
            AccuracyByRule(eval.out[1].correctAttempts, eval.out[1].totalAttempts)

\* updateUserProgress has computed the mastery of 8 correct of 10: 85
C10_Witness ==
  /\ Evaluated("updateUserProgressData")
  /\ eval.out[1].correctAttempts = 8 /\ eval.out[1].totalAttempts = 10
  /\ eval.out[1].masteryLevel = RInt(85)

\* the integer nearest to a rational that is not negative, a half upwards
NearestInteger(x) ==
  CHOOSE k \in 0 .. (x[1] \div x[2]) + 1 :
    /\ RLe(RSub(RInt(k), R(1, 2)), x)
    /\ RLt(x, RAdd(RInt(k), R(1, 2)))

\* C11: when performance >= 0.6, newRepetitions = repetitions + 1 and
\* newInterval is 1 if repetitions = 0, 6 if repetitions = 1 and
\* round(currentInterval * easeFactor) otherwise; when performance < 0.6,
\* newRepetitions = 0 and newInterval = 1 whatever the other inputs are;
\* (6, 2, 2.5, 0.8) gives interval 15, repetitions 3 and ease factor 2.5
C11_IntervalRule ==
  Evaluated("calculateSpacedRepetitionInterval") =>
    /\ RGe(eval.args.performance, R(6, 10)) =>
         /\ eval.out[1].newRepetitions = eval.args.repetitions + 1
         /\ eval.out[1].newInterval =
              IF eval.args.repetitions = 0 THEN 1
              ELSE IF eval.args.repetitions = 1 THEN 6
              ELSE NearestInteger(RMul(RInt(eval.args.currentInterval),
                                       eval.args.easeFactor))
    /\ RLt(eval.args.performance, R(6, 10)) =>
         eval.out[1].newRepetitions = 0 /\ eval.out[1].newInterval = 1
    /\ (/\ eval.args.currentInterval = 6 /\ eval.args.repetitions = 2
        /\ eval.args.easeFactor = R(5, 2) /\ eval.args.performance = R(8, 10)) =>
         /\ eval.out[1].newInterval = 15
         /\ eval.out[1].newRepetitions = 3
         /\ eval.out[1].newEaseFactor = R(5, 2)

\* the review (6, 2, 2.5, 0.8) has been computed: interval 15
C11_Witness ==
  /\ Evaluated("calculateSpacedRepetitionInterval")
  /\ eval.args.currentInterval = 6 /\ eval.args.repetitions = 2
  /\ eval.args.easeFactor = R(5, 2) /\ eval.args.performance = R(8, 10)
  /\ eval.out[1].newInterval = 15

\* C12: along any sequence of reviews, each output fed back as the next
\* input, with any performance in [0, 1] and any starting ease factor, the
\* ease factor is at least 1.3 after every review, passed or failed
C12_EaseFloor ==
  Evaluated("calculateSpacedRepetitionInterval") =>
    RGe(eval.out[1].newEaseFactor, R(13, 10))

\* a later review of a sequence was passed at performance 0.6 and left the
\* ease factor on its floor, where the formula without the floor is below it
C12_Witness ==
  /\ Evaluated("calculateSpacedRepetitionInterval")
  /\ eval.args.review > 1
  /\ RGe(eval.args.performance, R(6, 10))
  /\ eval.out[1].newRepetitions > 1
  /\ eval.out[1].newEaseFactor = R(13, 10)
  /\ RLt(newEaseFactorNoFloor(eval.args.easeFactor, eval.args.performance), R(13, 10))

FailedReview ==
  /\ Evaluated("calculateSpacedRepetitionInterval")
  /\ RLt(eval.args.performance, R(6, 10))
  /\ RGe(eval.args.easeFactor, R(13, 10))

\* C13 as claimed: for every failing review (performance < 0.6) and every
\* input easeFactor >= 1.3, newInterval = 1, newRepetitions = 0 and the new
\* ease factor is strictly less than the input one and at least 1.3
C13_Original ==
  FailedReview =>
    /\ eval.out[1].newInterval = 1 /\ eval.out[1].newRepetitions = 0
    /\ RLt(eval.out[1].newEaseFactor, eval.args.easeFactor)
    /\ RGe(eval.out[1].newEaseFactor, R(13, 10))

\* C13 (amended): for every failing review and every input easeFactor >=
\* 1.3, newInterval = 1, newRepetitions = 0 and the new ease factor is at
\* least 1.3; it is strictly less than the input one when that is above 1.3
\* and stays 1.3 when the input is 1.3
C13_FailedReview ==
  FailedReview =>
    /\ eval.out[1].newInterval = 1 /\ eval.out[1].newRepetitions = 0
    /\ RGe(eval.out[1].newEaseFactor, R(13, 10))
    /\ IF RGt(eval.args.easeFactor, R(13, 10))
       THEN RLt(eval.out[1].newEaseFactor, eval.args.easeFactor)
       ELSE eval.out[1].newEaseFactor = R(13, 10)

\* a review at performance 0.4 of an item with repetitions and an ease
\* factor of 2.5 has reset it and lowered the ease factor, not to the floor
C13_Witness ==
  /\ FailedReview
  /\ eval.args.performance = R(4, 10) /\ eval.args.easeFactor = R(5, 2)
  /\ eval.args.repetitions = 2 /\ eval.args.currentInterval = 6
  /\ eval.out[1].newInterval = 1 /\ eval.out[1].newRepetitions = 0
  /\ RGt(eval.out[1].newEaseFactor, R(13, 10))
  /\ RLt(eval.out[1].newEaseFactor, eval.args.easeFactor)

\* C14: for any currentMastery, performance and totalAttempts, in range or
\* not, calculateNewMasteryLevel returns what it returns for the arguments
\* clamped to currentMastery in [0, 100], performance in [0, 1] and
\* totalAttempts >= 0
C14_ClampedArguments ==
  Evaluated("calculateNewMasteryLevel") =>
    eval.out[1] = calculateNewMasteryLevel(
                    Clamp100(eval.args.currentMastery),
                    RMax(RInt(0), RMin(RInt(1), eval.args.performance)),
                    IF eval.args.totalAttempts < 0 THEN 0 ELSE eval.args.totalAttempts)

\* ------------------------------------------------------------------------
\* Properties of the selectors
\* ------------------------------------------------------------------------
Selected(op) == sel.op = op /\ sel.pc = "done"

\* the row of the question's topic among the rows the call read
RowRead(q) == SelectSeq(sel.userProgress, LAMBDA r : r.topic = q.topic)

\* the priority of a question for the call: from the rows and the recent
\* attempts it read, at the time it ranked
PriorityOf(q) ==
  calculateQuestionPriority(q, IF RowRead(q) = <<>> THEN <<>> ELSE <<RowRead(q)[1]>>,
                            q.id \in sel.recentQuestionIds, sel.at)

\* the mastery of the question's topic, 0 without a row
MasteryOf(q) == IF RowRead(q) = <<>> THEN RInt(0) ELSE RowRead(q)[1].masteryLevel

Range(s) == {s[j] : j \in DOMAIN s}

\* C6: the result of getNextQuestions is sorted by priority descending and,
\* at equal priority, by topic mastery ascending (0 without progress); every
\* returned question is in the bank and appears once; no question left out
\* has a strictly higher priority than a returned one
C6_RankedPrefix ==
  Selected("getNextQuestions") =>
    /\ \A j \in 1 .. Len(sel.result) - 1 :
         /\ RGe(PriorityOf(sel.result[j]), PriorityOf(sel.result[j + 1]))
         /\ PriorityOf(sel.result[j]) = PriorityOf(sel.result[j + 1]) =>
              RLe(MasteryOf(sel.result[j]), MasteryOf(sel.result[j + 1]))
    /\ \A j \in DOMAIN sel.result : sel.result[j] \in Range(questions)
    /\ \A j, k \in DOMAIN sel.result : j # k => sel.result[j].id # sel.result[k].id
    /\ \A q \in Range(questions) \ Range(sel.result) :
         \A r \in Range(sel.result) : ~RGt(PriorityOf(q), PriorityOf(r))

\* the place of a question in the bank
PlaceOf(q) == CHOOSE j \in DOMAIN questions : questions[j] = q

\* getNextQuestions has returned two neighbours of equal priority, the one
\* of lower mastery first although it is later in the bank, and has left a
\* question out
C6_Witness ==
  /\ Selected("getNextQuestions")
  /\ Range(questions) \ Range(sel.result) # {}
  /\ \E j \in 1 .. Len(sel.result) - 1 :
       /\ PriorityOf(sel.result[j]) = PriorityOf(sel.result[j + 1])
       /\ RLt(MasteryOf(sel.result[j]), MasteryOf(sel.result[j + 1]))
       /\ PlaceOf(sel.result[j]) > PlaceOf(sel.result[j + 1])

\* the rows of the learner of the call in the table
LearnerProgress == {r \in Range(progress) : r.userId = sel.user}

\* 7 days from mastery 80, 3 days from mastery 60, else 1 day
ThresholdByRule(m) ==
  IF RGe(m, RInt(80)) THEN 7 ELSE IF RGe(m, RInt(60)) THEN 3 ELSE 1

\* whole days between lastPracticed and t
DaysAt(row, t) == (t - row.lastPracticed) \div MsPerDay

\* the topics with a row of the learner that was due when the call looked
\* at it
DueTopics ==
  {r.topic : r \in {x \in LearnerProgress :
     \E j \in DOMAIN sel.examined :
       /\ sel.examined[j].topic = x.topic
       /\ DaysAt(x, sel.examined[j].at) >= ThresholdByRule(x.masteryLevel)}}

\* C7: with no store change during the call, getQuestionsForReview returns
\* exactly the questions whose topic has a row of the learner with
\* floor(days since lastPracticed) >= 7 from mastery 80, 3 from mastery 60,
\* else 1, each once, and no question of a topic without a row or below its
\* threshold; mastery 85 practised 8 days ago is due, mastery 50 practised 0
\* days ago is not
C7_ReviewDue ==
  Selected("getQuestionsForReview") /\ progress = sel.store =>
    /\ \A r \in LearnerProgress : \E j \in DOMAIN sel.examined : sel.examined[j].topic = r.topic
    /\ \A j \in DOMAIN sel.result : sel.result[j] \in Range(questions)
    /\ \A q \in Range(questions) :
         Cardinality({j \in DOMAIN sel.result : sel.result[j].id = q.id})
           = IF q.topic \in DueTopics THEN 1 ELSE 0
    /\ \A r \in LearnerProgress, j \in DOMAIN sel.examined :
         sel.examined[j].topic = r.topic =>
           /\ r.masteryLevel = RInt(85) /\ DaysAt(r, sel.examined[j].at) = 8 =>
                \A q \in Range(questions) : q.topic = r.topic => q \in Range(sel.result)
           /\ r.masteryLevel = RInt(50) /\ DaysAt(r, sel.examined[j].at) = 0 =>
                \A q \in Range(questions) : q.topic = r.topic => q \notin Range(sel.result)

\* with the store unchanged, getQuestionsForReview has returned the
\* questions of a topic of mastery 85 practised 8 days ago and none of the
\* learner's other topic, which became a day old only after the call looked
\* at it, nor for the due row of another user
C7_Witness ==
  /\ Selected("getQuestionsForReview") /\ progress = sel.store
  /\ sel.result # <<>>
  /\ \E r \in LearnerProgress, j \in DOMAIN sel.examined :
       /\ sel.examined[j].topic = r.topic
       /\ r.masteryLevel = RInt(85) /\ DaysAt(r, sel.examined[j].at) = 8
  /\ \E r \in LearnerProgress :
       /\ r.topic \notin DueTopics
       /\ DaysAt(r, now) >= ThresholdByRule(r.masteryLevel)
  /\ \E r \in Range(progress) :
       /\ r.userId # sel.user
       /\ DaysAt(r, sel.examined[1].at) >= ThresholdByRule(r.masteryLevel)

\* the question is among the last 20 attempts of the learner of the call
InLastTwenty(q) ==
  \E j \in DOMAIN attempts :
    /\ attempts[j].user = sel.user /\ attempts[j].questionId = q.id
    /\ Cardinality({k \in DOMAIN attempts :
                      /\ attempts[k].user = sel.user
                      /\ attempts[k].attemptedAt > attempts[j].attemptedAt}) < 20

\* pairs <<q, r>> of bank questions of one topic and difficulty, q among
\* the last 20 attempts and r not
RecentPairs ==
  {pair \in Range(questions) \X Range(questions) :
     /\ pair[1].topic = pair[2].topic
     /\ pair[1].difficulty = pair[2].difficulty
     /\ InLastTwenty(pair[1]) /\ ~InLastTwenty(pair[2])}

\* the place of a question in the result, 0 when it is not returned
ResultPlace(q) ==
  IF q \in Range(sel.result)
  THEN CHOOSE j \in DOMAIN sel.result : sel.result[j] = q
  ELSE 0

\* r is listed before q: when q is returned, r is returned at an earlier place
ListedBefore(r, q) ==
  ResultPlace(q) > 0 => ResultPlace(r) > 0 /\ ResultPlace(r) < ResultPlace(q)

\* C15 as claimed: of two questions of the same topic and difficulty of
\* which exactly one is among the learner's last 20 attempts, for every
\* progress state of the topic, the recently attempted one has a strictly
\* lower priority and getNextQuestions lists the other one before it
C15_Original ==
  Selected("getNextQuestions") =>
    \A pair \in RecentPairs :
      /\ RLt(PriorityOf(pair[1]), PriorityOf(pair[2]))
      /\ ListedBefore(pair[2], pair[1])

\* C15 (amended): the recently attempted question never has a higher
\* priority than the other; it has a strictly lower one, and is listed after
\* the other, unless its own score is 100 after the clamp: then both score
\* 100 and the two are listed in the order of the bank
C15_RecentPenalty ==
  Selected("getNextQuestions") =>
    \A pair \in RecentPairs :
      IF RLt(PriorityOf(pair[1]), RInt(100))
      THEN /\ RLt(PriorityOf(pair[1]), PriorityOf(pair[2]))
           /\ ListedBefore(pair[2], pair[1])
      ELSE /\ PriorityOf(pair[1]) = RInt(100) /\ PriorityOf(pair[2]) = RInt(100)
           /\ IF PlaceOf(pair[1]) < PlaceOf(pair[2])
              THEN ListedBefore(pair[1], pair[2])
              ELSE ListedBefore(pair[2], pair[1])

\* getNextQuestions has returned a recently attempted question behind the
\* question of its topic and difficulty that is behind it in the bank and
\* was not attempted recently
C15_Witness ==
  /\ Selected("getNextQuestions")
  /\ \E pair \in RecentPairs :
       /\ sel.userProgress # <<>>
       /\ RLt(PriorityOf(pair[1]), PriorityOf(pair[2]))
       /\ PlaceOf(pair[1]) < PlaceOf(pair[2])
       /\ ResultPlace(pair[2]) > 0
       /\ ResultPlace(pair[2]) < ResultPlace(pair[1])

\* getNextQuestions has returned for the second time, and the table is as
\* it was when the first call began
CalledTwice ==
  /\ Selected("getNextQuestions") /\ sel.previous # <<>>
  /\ progress = sel.previous[1].store

\* the calendar day of a time
DayOf(t) == t \div MsPerDay

\* C16 as claimed: getNextQuestions is deterministic in the store state and
\* the current day: two calls with the same learner and count, with no
\* attempt, progress or question change in between, return the same
\* questions in the same order
C16_Original ==
  CalledTwice /\ DayOf(sel.previous[1].at) = DayOf(sel.at) =>
    sel.result = sel.previous[1].result

\* C16 (amended): getNextQuestions is deterministic in the store state and
\* the number of whole days elapsed since lastPracticed of each of the
\* learner's rows: two calls with the same learner and count, with no store
\* change in between and the same whole days elapsed for every row, return
\* the same questions in the same order, ties on priority and mastery
\* included
C16_Deterministic ==
  (/\ CalledTwice
   /\ \A r \in LearnerProgress : DaysAt(r, sel.previous[1].at) = DaysAt(r, sel.at)) =>
    sel.result = sel.previous[1].result

\* the second call, half a day after the first and with the same whole days
\* elapsed for the learner's row, has returned the same list, in which two
\* neighbours are tied on priority and mastery
C16_Witness ==
  /\ CalledTwice
  /\ sel.previous[1].at < sel.at
  /\ LearnerProgress # {}
  /\ \A r \in LearnerProgress : DaysAt(r, sel.previous[1].at) = DaysAt(r, sel.at)
  /\ sel.result = sel.previous[1].result
  /\ \E j \in 1 .. Len(sel.result) - 1 :
       /\ PriorityOf(sel.result[j]) = PriorityOf(sel.result[j + 1])
       /\ MasteryOf(sel.result[j]) = MasteryOf(sel.result[j + 1])

\* the topics of the question bank
BankTopics == {q.topic : q \in Range(questions)}

\* the row of a topic among the rows the call read
TopicRowRead(topic) == SelectSeq(sel.userProgress, LAMBDA r : r.topic = topic)

\* base priority and reason by the mastery tier
TierByRule(rows) ==
  IF rows = <<>> THEN <<80, "New topic - start learning">>
  ELSE IF RLt(rows[1].masteryLevel, RInt(30))
  THEN <<90, "Low mastery - needs immediate attention">>
  ELSE IF RLt(rows[1].masteryLevel, RInt(60))
  THEN <<70, "Moderate mastery - continue practicing">>
  ELSE IF RLt(rows[1].masteryLevel, RInt(80))
  THEN <<40, "Good mastery - occasional review">>
  ELSE <<20, "High mastery - maintenance only">>

\* C17: getTopicRecommendations returns exactly one entry per distinct topic
\* of the question bank; its reason and base priority follow the mastery
\* tier of the learner's row (none: new topic, 80; < 30: 90; < 60: 70; < 80:
\* 40; >= 80: 20); with a row its priority is min(100, base + min(2 *
\* floor(days since lastPracticed), 20)); the list is sorted by priority
\* descending
C17_TopicRecommendations ==
  Selected("getTopicRecommendations") =>
    /\ {sel.result[j].topic : j \in DOMAIN sel.result} = BankTopics
    /\ Len(sel.result) = Cardinality(BankTopics)
    /\ \A j \in DOMAIN sel.result :
         LET rows == TopicRowRead(sel.result[j].topic)
             plus == 2 * DaysAt(rows[1], sel.at)
             sum  == TierByRule(rows)[1] + (IF plus < 20 THEN plus ELSE 20)
         IN  /\ sel.result[j].reason = TierByRule(rows)[2]
             /\ sel.result[j].priority =
                  IF rows = <<>> THEN 80 ELSE IF sum < 100 THEN sum ELSE 100
    /\ \A j \in 1 .. Len(sel.result) - 1 :
         sel.result[j].priority >= sel.result[j + 1].priority

\* getTopicRecommendations has listed a topic of low mastery practised 8
\* days ago, at priority 100 by the cap, before a new topic
C17_Witness ==
  /\ Selected("getTopicRecommendations")
  /\ Len(sel.result) = 2
  /\ sel.result[1].priority = 100
  /\ sel.result[1].reason = "Low mastery - needs immediate attention"
  /\ sel.result[2].reason = "New topic - start learning"
  /\ sel.result[2].priority = 80

\* ------------------------------------------------------------------------
\* Properties of the calls whose store calls fail
\* ------------------------------------------------------------------------
\* the words by which the message of an operation names it
OperationWords ==
  [updateUserProgress      |-> "update user progress",
   updateMasteryLevel      |-> "update mastery level",
   recordQuestionAttempt   |-> "record question attempt",
   getNextQuestions        |-> "get next questions",
   getQuestionsForReview   |-> "get questions for review",
   getTopicRecommendations |-> "get topic recommendations"]

\* the message that names op and carries the store's message
Naming(op, error) == "Failed to " \o OperationWords[op] \o ": " \o error.message

\* the calls that threw
Failed == {c \in DOMAIN calls : calls[c].pc = "err"}

\* C18 as stated: whenever a store call of an engine operation fails, be it
\* with the store unavailable, a constraint violation or a record not found,
\* the message of the error the caller receives names the failed operation
C18_Original ==
  \A c \in Failed :
    \E e \in StoreErrors : calls[c].error = Naming(calls[c].op, e)

\* C18: the error the caller receives always carries the store's message
\* behind a fixed prefix. The prefix names the operation when the operation
\* is a selector, and when the store's error is not a known request error
\* (the store is unavailable). When updateUserProgress, updateMasteryLevel or
\* recordQuestionAttempt meets a known request error (constraint violation,
\* record not found), the prefix is "Database error: ", the same for all
\* three
C18_WrappedErrors ==
  \A c \in Failed :
    \E e \in StoreErrors :
      calls[c].error = IF calls[c].op \in Selectors \/ ~e.known
                       THEN Naming(calls[c].op, e)
                       ELSE "Database error: " \o e.message

\* C18 witness: an updateUserProgress has lost the race for the create to
\* an updateMasteryLevel and threw the unique constraint's error
C18_Witness ==
  \E c \in Failed, d \in DOMAIN calls :
    /\ calls[c].op = "updateUserProgress"
    /\ calls[c].existing = <<>>
    /\ calls[c].error = "Database error: P2002"
    /\ calls[d].op = "updateMasteryLevel"
    /\ calls[d].pc = "ok"
    /\ calls[d].existing = <<>>

\* the rows of a table with the key of call c, and the others
KeyRows(table, c) ==
  SelectSeq(table, LAMBDA r : r.userId = calls[c].user /\ r.topic = calls[c].topic)
OtherRows(table, c) ==
  SelectSeq(table, LAMBDA r : ~(r.userId = calls[c].user /\ r.topic = calls[c].topic))

\* after is the row of call c's key with all the values the call writes, and
\* with the values of before wherever the call writes none
Whole(c, before, after) ==
  \E date \in Dates(calls[c].readAt, now) :
    LET data == Data(c, date)
    IN  /\ Len(after) = 1
        /\ \A f \in DOMAIN data : after[1][f] = data[f]
        /\ IF before # <<>>
           THEN \A f \in DOMAIN after[1] \ DOMAIN data : after[1][f] = before[1][f]
           ELSE DOMAIN after[1] = DOMAIN data

\* call c ends in this step by throwing or by being given up
Ends(c) ==
  /\ calls[c].pc # calls'[c].pc
  /\ calls'[c].pc \in {"err", "cancelled"}

\* C19: when an updateUserProgress or updateMasteryLevel throws or is given
\* up, during its read or during its write, the step leaves the table as it
\* was, or leaves the row of the call's key with all of the call's new values
\* together and every other row as it was
C19_NoPartialMutation ==
  [][\A c \in DOMAIN calls :
       Ends(c) =>
         \/ progress' = progress
         \/ /\ calls[c].pc = "found"
            /\ OtherRows(progress', c) = OtherRows(progress, c)
            /\ Whole(c, KeyRows(progress, c), KeyRows(progress', c))]_vars

\* C19 witness: an updateUserProgress threw during its update, which the
\* store had applied, and the other call was given up during its write
C19_Witness ==
  \E c, d \in DOMAIN calls :
    /\ calls[c].pc = "err" /\ calls[c].op = "updateUserProgress"
    /\ calls[c].existing # <<>>
    /\ RowsOf(calls[c].user, calls[c].topic)[1].totalAttempts
         = calls[c].existing[1].totalAttempts + 1
    /\ calls[d].pc = "cancelled" /\ calls[d].readAt # 0

\* ------------------------------------------------------------------------
\* Properties of updateMasteryLevel's writes
\* ------------------------------------------------------------------------
\* call c is an updateMasteryLevel whose update or create is applied in
\* this step
MasteryWritten(c) ==
  /\ calls[c].op = "updateMasteryLevel"
  /\ calls[c].pc = "found"
  /\ calls'[c].pc = "ok"

\* C20: an updateMasteryLevel on a stored row leaves the row's totalAttempts
\* and correctAttempts, every other row and the number of rows as they
\* were, however many calls there are and however they interleave; when the
\* key has no row it creates one with totalAttempts = 1 and
\* correctAttempts = 1 if performance > 0.5, else 0; and a call that throws
\* writes nothing
C20_MasteryFrame ==
  [][\A c \in DOMAIN calls :
       /\ MasteryWritten(c) =>
            LET before == KeyRows(progress, c)
                after  == KeyRows(progress', c)
            IN  /\ Len(after) = 1
                /\ OtherRows(progress', c) = OtherRows(progress, c)
                /\ IF before # <<>>
                   THEN /\ after[1].totalAttempts = before[1].totalAttempts
                        /\ after[1].correctAttempts = before[1].correctAttempts
                   ELSE /\ after[1].totalAttempts = 1
                        /\ after[1].correctAttempts =
                             IF RGt(calls[c].performance, R(1, 2)) THEN 1 ELSE 0
       /\ (calls[c].op = "updateMasteryLevel" /\ calls[c].pc = "found"
             /\ calls'[c].pc = "err")
            => progress' = progress]_vars

\* C20 witness: one updateMasteryLevel has returned on a row that earlier
\* practice left, whose mastery it changed and whose counters are still
\* those of that practice, and another has returned the row it created for
\* a good performance
C20_Witness ==
  \E c, d \in DOMAIN calls :
    /\ \A b \in {c, d} : calls[b].op = "updateMasteryLevel" /\ calls[b].pc = "ok"
    /\ calls[c].existing # <<>>
    /\ calls[c].result[1].totalAttempts = SeedAttempts
    /\ calls[c].result[1].correctAttempts = SeedAttempts - 1
    /\ calls[c].result[1].masteryLevel # calls[c].existing[1].masteryLevel
    /\ calls[d].existing = <<>>
    /\ RGt(calls[d].performance, R(1, 2))
    /\ calls[d].result[1].totalAttempts = 1
    /\ calls[d].result[1].correctAttempts = 1

\* ------------------------------------------------------------------------
\* Properties of the store under the selectors
\* ------------------------------------------------------------------------
\* the tables of the store
Store == <<questions, attempts, progress, sessions, users>>

\* C21: getNextQuestions, getQuestionsForReview, getTopicRecommendations
\* and getLearningRecommendations are read-only: every step of a selector
\* call, the step in which it returns and the step in which it throws
\* included, leaves every question, attempt, progress row, session and user
\* as it was
C21_ReadOnly == [][sel' # sel => Store' = Store]_vars

\* C21 witness: getLearningRecommendations has returned a recommendation for
\* every question of the bank, to a learner with a history of attempts and
\* a stored row, and the tables are those of the start
C21_Witness ==
  /\ sel.pc = "done" /\ sel.op = "getLearningRecommendations"
  /\ Len(sel.result) = Len(Bank)
  /\ sel.userProgress # <<>>
  /\ attempts = LongHistory
  /\ progress = sel.store /\ questions = Bank /\ sessions = Sessions

\* ------------------------------------------------------------------------
\* Properties of the foreign keys
\* ------------------------------------------------------------------------
\* every stored attempt references a stored question and a stored session
Referenced ==
  \A j \in DOMAIN attempts :
    /\ attempts[j].questionId \in StoredIds
    /\ attempts[j].sessionId \in DOMAIN sessions

\* a recordQuestionAttempt is refused in this step
Refused(c) ==
  /\ calls[c].pc = "idle"
  /\ calls'[c].op = "recordQuestionAttempt"
  /\ calls'[c].pc = "err"

\* C22: in every state that recordQuestionAttempt, addQuestion,
\* deleteQuestion, createQuizSession and the five deleteMany steps of
\* cleanupDatabase can reach, the states between those steps included, every
\* stored attempt references a question and a session that exist; and a
\* recordQuestionAttempt that is refused throws "Database error: ..." and
\* stores no attempt
C22_AttemptsReferenced ==
  /\ []Referenced
  /\ [][\A c \in DOMAIN calls :
          Refused(c) => /\ attempts' = attempts
                        /\ calls'[c].error = "Database error: P2003"]_vars

\* C22 witness: cleanupDatabase had deleted the attempts when an attempt was
\* stored, so that its deleteMany of the sessions was refused, and a
\* recordQuestionAttempt naming a missing question or session has just been
\* refused
C22_Witness ==
  /\ cleanup = "err"
  /\ Len(attempts) = 1
  /\ sessions = Sessions
  /\ calls[1].op = "recordQuestionAttempt" /\ calls[1].pc = "err"

\* ------------------------------------------------------------------------
\* Properties of the length of getNextQuestions' result
\* ------------------------------------------------------------------------
\* C23: getNextQuestions(learner, count) returns exactly
\* min(max(count, 0), N) questions, N the number of questions of the bank,
\* for every integer count, zero and the negative ones included: never more
\* than count
C23_AtMostCount ==
  (sel.pc = "done" /\ sel.op = "getNextQuestions")
    => Len(sel.result) = Min(Max(sel.count, 0), Len(questions))

\* ------------------------------------------------------------------------
\* Properties of the counters under concurrent calls
\* ------------------------------------------------------------------------
\* the rows of a table with the key
RowsIn(table, k) ==
  SelectSeq(table, LAMBDA r : r.userId = k[1] /\ r.topic = k[2])

\* a counter of the key's row is lower after the step than before it
Lowered(k) ==
  /\ RowsIn(progress, k) # <<>>
  /\ RowsIn(progress', k) # <<>>
  /\ \/ RowsIn(progress', k)[1].totalAttempts < RowsIn(progress, k)[1].totalAttempts
     \/ RowsIn(progress', k)[1].correctAttempts
          < RowsIn(progress, k)[1].correctAttempts

\* call c is an updateUserProgress whose update is applied in this step,
\* and the counters its findUnique answered are no longer the stored ones
StaleWrite(c, k) ==
  /\ calls[c].op = "updateUserProgress" /\ KeyOf(c) = k
  /\ calls[c].pc = "found" /\ calls'[c].pc = "ok"
  /\ calls[c].existing # <<>>
  /\ \/ calls[c].existing[1].totalAttempts # RowsIn(progress, k)[1].totalAttempts
     \/ calls[c].existing[1].correctAttempts
          # RowsIn(progress, k)[1].correctAttempts

ProgressWritten(c) ==
  /\ calls[c].op = "updateUserProgress"
  /\ calls[c].pc = "found"
  /\ calls'[c].pc = "ok"

\* C25: right after every successful write of updateUserProgress, whatever
\* updateUserProgress and updateMasteryLevel calls ran before or beside it,
\* the masteryLevel of the row is the accuracy-based formula of the
\* correctAttempts and totalAttempts of that same row, whatever masteryLevel
\* the row held before
C25_MasteryFromCounters ==
  [][\A c \in DOMAIN calls :
       ProgressWritten(c) =>
         LET after == RowsIn(progress', KeyOf(c))
         IN  /\ Len(after) = 1
             /\ after[1].masteryLevel
                  = AccuracyByRule(after[1].correctAttempts,
                                   after[1].totalAttempts)]_vars

\* C25 witness: an updateMasteryLevel had moved the masteryLevel of a row
\* away from the formula of its counters, an updateUserProgress read that
\* row, and the stored row is the one that call returned, with a lower
\* masteryLevel than the one it read
C25_Witness ==
  \E c, d \in DOMAIN calls :
    /\ calls[c].op = "updateUserProgress" /\ calls[c].pc = "ok"
    /\ calls[d].op = "updateMasteryLevel" /\ calls[d].pc = "ok"
    /\ calls[c].existing = calls[d].result
    /\ calls[d].result[1].masteryLevel
         # AccuracyByRule(calls[d].result[1].correctAttempts,
                          calls[d].result[1].totalAttempts)
    /\ findUnique(calls[c].user, calls[c].topic) = calls[c].result
    /\ RLt(calls[c].result[1].masteryLevel, calls[c].existing[1].masteryLevel)

\* ------------------------------------------------------------------------
\* Properties of one updateUserProgress after another
\* ------------------------------------------------------------------------
\* an updateUserProgress was applied to the row that calls one at a time
\* leave at the counters of the arguments
Practised1 ==
  /\ Evaluated("updateUserProgressData")
  /\ eval.args.totalAttempts >= 1

\* C26: with the updateUserProgress calls of one (learner, topic) run one at
\* a time, from every pair of counters they can reach, a call with
\* isCorrect = true never leaves the masteryLevel lower than it was, and a
\* call with isCorrect = false never leaves it higher, the consistency bonus
\* included
C26_MasteryFollowsAnswer ==
  Practised1 =>
    LET was == AccuracyByRule(eval.args.correctAttempts, eval.args.totalAttempts)
    IN  IF eval.args.isCorrect
        THEN RGe(eval.out[1].masteryLevel, was)
        ELSE RLe(eval.out[1].masteryLevel, was)

\* C26 witness: a wrong answer after four correct ones brings the row to
\* five attempts at accuracy 0.8, where the bonus begins, and the
\* masteryLevel falls from 100 to 82.5
C26_Witness ==
  /\ Practised1
  /\ eval.args.correctAttempts = 4 /\ eval.args.totalAttempts = 4
  /\ ~eval.args.isCorrect
  /\ eval.out[1].masteryLevel = R(165, 2)

\* C27: a masteryLevel of 100 is absorbing for updateMasteryLevel: called
\* for a row at 100, which updateUserProgress leaves, it writes 100 for
\* every performance, 0 included, and every totalAttempts, and so does
\* every later call of the sequence
C27_CeilingAbsorbing ==
  (Evaluated("updateMasteryLevelData")
     /\ eval.args.existing.masteryLevel = RInt(100))
  => eval.out[1].masteryLevel = RInt(100)

\* the last call of a sequence on a row at 100 has performance 0 and
\* writes 100
C27_Witness ==
  /\ Evaluated("updateMasteryLevelData")
  /\ eval.args.call = MaxMasterySequence
  /\ eval.args.existing.masteryLevel = RInt(100)
  /\ eval.args.existing.totalAttempts = 15
  /\ eval.args.existing.correctAttempts = 14
  /\ eval.args.performance = RInt(0)
  /\ eval.out[1].masteryLevel = RInt(100)

\* C28: from a new item (interval 0, repetitions 0, easeFactor 2.5), with
\* each output of calculateSpacedRepetitionInterval the input of the next
\* review and any performances in [0, 1]: the interval after every review
\* is at least 1, and a passing review that follows a passing review does
\* not return a shorter interval than the one it was given
C28_IntervalGrows ==
  (Evaluated("calculateSpacedRepetitionInterval") /\ eval.args.newItem)
  => /\ eval.out[1].newInterval >= 1
     /\ (eval.args.review > 1 /\ eval.args.repetitions > 0
          /\ passed(eval.args.performance))
        => eval.out[1].newInterval >= eval.args.currentInterval

\* the third passing review in a row of a new item: 1, 6 and then 13 days
C28_Witness ==
  /\ Evaluated("calculateSpacedRepetitionInterval")
  /\ eval.args.newItem
  /\ eval.args.review = 3
  /\ eval.args.repetitions = 2
  /\ eval.args.currentInterval = 6
  /\ eval.args.performance = R(6, 10)
  /\ eval.out[1].newInterval = 13

\* the getQuestionsForReview call has returned, and its findMany read the
\* row that update call c wrote
ReadAfter(c) ==
  /\ calls[c].pc = "ok"
  /\ sel.pc = "done" /\ sel.op = "getQuestionsForReview"
  /\ sel.user = calls[c].user
  /\ find(sel.userProgress, calls[c].topic) = calls[c].result

\* the call looked at the row of the topic of call c less than one day
\* after the lastPracticed that call c stored
WithinADay(c) ==
  \A j \in DOMAIN sel.examined :
    sel.examined[j].topic = calls[c].topic
    => sel.examined[j].at < calls[c].result[1].lastPracticed + MsPerDay

ReviewReturns ==
  sel.pc = "rows" /\ sel'.pc = "done" /\ sel'.op = "getQuestionsForReview"

\* the questionIds the turn of the loop of this step has collected
Collected ==
  {sel'.questionsForReview[j] :
     j \in (DOMAIN sel'.questionsForReview) \ (DOMAIN sel.questionsForReview)}

\* C30 as claimed: every question getQuestionsForReview returns has, in the
\* returned record, a topic the call found due, and is in the bank when the
\* call returns, also when updateQuestion or deleteQuestion runs between
\* the reads of the call
C30_Original ==
  [][ReviewReturns =>
       \A j \in DOMAIN sel'.result :
         /\ sel'.result[j].topic \in DueTopics'
         /\ sel'.result[j] \in Range(questions')]_vars

\* C30 (amended): the call collects the id of a question only in the turn
\* of a topic it finds due, and of the questions that have that topic when
\* the turn reads them; every question it returns has a collected id and
\* is in the bank, as the record it returns, when the call returns. The
\* topic of the returned record is the one of the last read
C30_ReturnedWereDue ==
  [][/\ \A id \in Collected :
          /\ sel'.examined[Len(sel'.examined)].topic \in DueTopics'
          /\ \E q \in Range(questions) :
               q.id = id /\ q.topic = sel'.examined[Len(sel'.examined)].topic
     /\ ReviewReturns =>
          \A j \in DOMAIN sel'.result :
            /\ sel'.result[j] \in Range(questions')
            /\ \E k \in DOMAIN sel.questionsForReview :
                 sel.questionsForReview[k] = sel'.result[j].id]_vars

\* the call found React due and JavaScript not, q2 was moved to JavaScript
\* and q1 deleted between its reads, and it has returned q2 alone, as a
\* JavaScript question
C30_Witness ==
  /\ Selected("getQuestionsForReview")
  /\ DueTopics = {"React"}
  /\ Len(sel.examined) = 2
  /\ sel.questionsForReview = <<"q2">>
  /\ sel.result = <<Question("q2", "JavaScript", "medium")>>
  /\ "q1" \notin StoredIds

====
